---- MODULE Spec2Model ----
(***************************************************************************)
(* State-machine model of the Claude Code status monitor of the            *)
(* workspaces-list extension: ClaudeCodeMonitor (session-log reader,       *)
(* caches, file watchers, process registry, status inference),             *)
(* ClaudeCodeDecorator (status cache, acknowledgements, displayed status)  *)
(* and the focus/timer scheduling of WorkspacesProvider.                   *)
(*                                                                         *)
(* Time is counted in units of 10 seconds, so 30000 ms is 3 and 5 minutes  *)
(* is 30.  Date.now() is never 0, so the clock starts at 1.                *)
(***************************************************************************)
EXTENDS Integers, Sequences, FiniteSets, TLC

\* JavaScript's undefined, for values that are strings in the model.  An
\* absent number (a timestamp) is 0: the code tests timestamps by truthiness,
\* and no timestamp the program produces is 0.
None == "undefined"

---------------------------------------------------------------------------
(* Program constants, in units of 10 s *)

\* config.get("waitingMessageAge", 10000)
WAITING_MESSAGE_AGE == 1
\* config.get("executingThreshold", 30000)
EXECUTING_THRESHOLD == 3
\* 5 * 60 * 1000
FIVE_MINUTES == 30
\* 30 * 60 * 1000
THIRTY_MINUTES == 180
\* 24 * 60 * 60 * 1000
FILE_AGE_THRESHOLD_MS == 8640

---------------------------------------------------------------------------
(* Bounds of the model *)

\* the session files hold at most MaxLines records in all
MaxLines == 2
\* at most MaxTouches timestamp-only touches of session files
MaxTouches == 1
\* at most MaxScans runs of updateClaudeProcessCache in flight at once
MaxScans == 2
\* at most MaxTimers process-rescan timers alive at once
MaxTimers == 2
\* a session file written before the activation holds at most MaxTail lines
MaxTail == 4

\* The instants the clock can show; the activation is at 2 and the records
\* written before it are of instant 1.  The differences cover every age class
\* of the inference rules: 0, 1, 2 (< 30 s), 3 (= 30 s), 29, 30 (= 5 min),
\* 180 (= 30 min), 181.
Instants == {2, 3, 5, 32, 183}

---------------------------------------------------------------------------
(* Workspaces, session-log directories and files *)

\* workspace keys: absolute paths, as sequences of characters
W1 == <<"/", "a">>
W2 == <<"/", "b">>
Workspaces == {W1, W2}

\* encodeWorkspacePath: workspacePath.replace(/\//g, "-")
EncodeWorkspacePath(p) == [i \in 1..Len(p) |-> IF p[i] = "/" THEN "-" ELSE p[i]]

\* path.join(CLAUDE_PROJECTS_DIR, encodedPath)
ProjectDir(w) == EncodeWorkspacePath(w)

Dirs == {ProjectDir(w) : w \in Workspaces}

\* the *.jsonl names of a directory, in readdir order
SessionNames == <<"s1", "s2">>
NameSet == {SessionNames[i] : i \in 1..Len(SessionNames)}

\* a session file path: <<directory, name>>
FilePaths == Dirs \X NameSet
FilesOfDir(d) == {f \in FilePaths : f[1] = d}

---------------------------------------------------------------------------
(* Records of a session file *)

\* {type, message: {role, content}, timestamp}.  content is None (the field
\* is missing), "text" or "tool_use" (its serialisation contains the marker
\* tool_use); role is None, "user" or "assistant".
NoMessage == [present |-> FALSE, role |-> None, content |-> None]

Rec(type, role, content, ts) ==
    [type |-> type,
     message |-> [present |-> TRUE, role |-> role, content |-> content],
     timestamp |-> ts]

\* a record without a message field
Bare(type, ts) == [type |-> type, message |-> NoMessage, timestamp |-> ts]

\* a line JSON.parse rejects
Malformed == Bare("malformed", 0)

\* the message records that may be appended at instant t: a user prompt, a
\* tool result (its content holds tool_use_id), an assistant text, an
\* assistant tool call, and an assistant message without content
MessageMenu(t) ==
    { Rec("user", "user", "text", t),
      Rec("user", "user", "tool_use", t),
      Rec("assistant", "assistant", "text", t),
      Rec("assistant", "assistant", "tool_use", t),
      Rec("assistant", "assistant", None, t) }

\* and the other lines: a message without role, a summary record, a line
\* that is not JSON
RecordMenu(t) ==
    MessageMenu(t) \cup {Rec("assistant", None, "text", t), Bare("summary", t), Malformed}

---------------------------------------------------------------------------
(* Log record reader *)

\* JavaScript truthiness of a number-or-undefined
Truthy(x) == x # 0

\* a file of the file system: [exists, lines, mtime]; stats.size is the
\* number of lines
NoFile == [exists |-> FALSE, lines |-> <<>>, mtime |-> 0]
FileSize(file) == Len(file.lines)

\* variant: the backward loop does not stop at an older message
ScanLineNoStop(acc, entry) ==
    IF entry = Malformed THEN acc
    ELSE IF entry.type = "file-history-snapshot" \/ entry.type = "summary" THEN acc
    ELSE IF entry.message.present /\ Truthy(entry.timestamp) THEN
        LET m == [present |-> TRUE,
                  role    |-> IF entry.message.role # None
                              THEN entry.message.role ELSE entry.type,
                  content |-> entry.message.content]
        IN  IF ~acc.found
            THEN [msg |-> m, ts |-> entry.timestamp, found |-> TRUE, stop |-> FALSE]
            ELSE IF entry.timestamp > acc.ts
            THEN [acc EXCEPT !.msg = m, !.ts = entry.timestamp]
            ELSE acc
    ELSE acc

\* One iteration of the backward loop of readConversationFile over one line.
\* acc = [msg, ts, found, stop].
ScanLine(acc, entry) ==
    IF acc.stop THEN acc
    ELSE IF entry = Malformed THEN acc
    ELSE IF entry.type = "file-history-snapshot" \/ entry.type = "summary" THEN acc
    ELSE IF entry.message.present /\ Truthy(entry.timestamp) THEN
        LET m == [present |-> TRUE,
                  role    |-> IF entry.message.role # None
                              THEN entry.message.role ELSE entry.type,
                  content |-> entry.message.content]
        IN  IF ~acc.found
            THEN [msg |-> m, ts |-> entry.timestamp, found |-> TRUE, stop |-> FALSE]
            ELSE IF entry.timestamp < acc.ts
            THEN [acc EXCEPT !.stop = TRUE]
            ELSE IF entry.timestamp > acc.ts
            THEN [acc EXCEPT !.msg = m, !.ts = entry.timestamp]
            ELSE acc
    ELSE acc

RECURSIVE ScanBack(_, _, _)
\* lines[i], lines[i-1], ..., lines[1]: the reversed tail
ScanBack(lines, i, acc) ==
    IF i = 0 THEN acc ELSE ScanBack(lines, i - 1, ScanLine(acc, lines[i]))

\* readConversationFile: the summary of one session file
ReadConversationFile(f, file) ==
    LET acc == ScanBack(file.lines, Len(file.lines),
                        [msg |-> NoMessage, ts |-> 0, found |-> FALSE, stop |-> FALSE])
    IN  [path         |-> f,
         lastModified |-> IF Truthy(acc.ts) THEN acc.ts ELSE file.mtime,
         messageCount |-> Len(file.lines) + 1,
         lastMessage  |-> acc.msg]

\* the cwd field of a record of session file f: the agent writes its working
\* directory, the workspace of the file's directory, on every message
\* record; <<>> (no cwd field) on the other lines
EntryCwd(w, entry) == IF entry.message.present THEN w ELSE <<>>

RECURSIVE FirstCwd(_, _, _)
\* the for loop over firstLines.slice(0, 5), from line i: the first truthy cwd
FirstCwd(w, lines, i) ==
    IF i > Len(lines) \/ i > 5 THEN <<>>
    ELSE IF EntryCwd(w, lines[i]) # <<>> THEN EntryCwd(w, lines[i])
    ELSE FirstCwd(w, lines, i + 1)

\* the working directory found in the head of a file of workspace w; <<>>
\* is the empty string
HeadCwd(w, file) == FirstCwd(w, file.lines, 1)

\* !workingDirectory, of an entry of workingDirectoryCache: undefined or ""
NoWorkingDirectory(cached) == cached = <<>> \/ cached = << <<>> >>

---------------------------------------------------------------------------
(* Status inference *)

\* JSON.stringify(content).toLowerCase().includes("tool_use")
HasToolUse(content) == content = "tool_use"

\* conversations.sort((a, b) => b.lastModified - a.lastModified): stable,
\* descending.  Insert x after every element that is not older than it.
RECURSIVE InsertDesc(_, _)
InsertDesc(x, s) ==
    IF s = <<>> THEN <<x>>
    ELSE IF Head(s).lastModified >= x.lastModified
         THEN <<Head(s)>> \o InsertDesc(x, Tail(s))
         ELSE <<x>> \o s

\* variant: the sort left out
Unsorted(s) == s

RECURSIVE SortDesc(_)
SortDesc(s) ==
    IF s = <<>> THEN <<>>
    ELSE InsertDesc(s[Len(s)], SortDesc(SubSeq(s, 1, Len(s) - 1)))

\* variant: messageAge > waitingMessageAge instead of >=
IsWaitingConvoStrictAge(c, t) ==
    /\ c.lastModified > t - FIVE_MINUTES
    /\ c.lastMessage.present
    /\ c.lastMessage.role = "assistant"
    /\ c.lastMessage.content # None
    /\ HasToolUse(c.lastMessage.content)
    /\ t - c.lastModified > WAITING_MESSAGE_AGE

\* variant: lastModified >= fiveMinutesAgo instead of >
IsWaitingConvoFiveInclusive(c, t) ==
    /\ c.lastModified >= t - FIVE_MINUTES
    /\ c.lastMessage.present
    /\ c.lastMessage.role = "assistant"
    /\ c.lastMessage.content # None
    /\ HasToolUse(c.lastMessage.content)
    /\ t - c.lastModified >= WAITING_MESSAGE_AGE

\* variant: the role of the last message is not looked at
IsWaitingConvoAnyRole(c, t) ==
    /\ c.lastModified > t - FIVE_MINUTES
    /\ c.lastMessage.present
    /\ c.lastMessage.content # None
    /\ HasToolUse(c.lastMessage.content)
    /\ t - c.lastModified >= WAITING_MESSAGE_AGE

\* the conditions of checkForWaitingInput on one conversation
IsWaitingConvo(c, t) ==
    /\ c.lastModified > t - FIVE_MINUTES
    /\ c.lastMessage.present
    /\ c.lastMessage.role = "assistant"
    /\ c.lastMessage.content # None
    /\ HasToolUse(c.lastMessage.content)
    /\ t - c.lastModified >= WAITING_MESSAGE_AGE

\* the first index of s that satisfies P, 0 when there is none
FirstIndex(s, P(_)) ==
    IF \E i \in 1..Len(s) : P(s[i])
    THEN CHOOSE i \in 1..Len(s) : P(s[i]) /\ \A j \in 1..(i - 1) : ~P(s[j])
    ELSE 0

CheckForWaitingInput(convs, t) ==
    LET P(c) == IsWaitingConvo(c, t)
        i == FirstIndex(convs, P)
    IN  IF i # 0
        THEN [isWaiting |-> TRUE, lastMessageTime |-> convs[i].lastModified]
        ELSE [isWaiting |-> FALSE, lastMessageTime |-> 0]

\* variant: lastModified >= thresholdAgo instead of >
IsExecutingConvoInclusive(c, t) == c.lastModified >= t - EXECUTING_THRESHOLD

\* the condition of checkForExecuting on one conversation
IsExecutingConvo(c, t) == c.lastModified > t - EXECUTING_THRESHOLD

\* variant: the timestamp reported is that of the oldest conversation
CheckForExecutingOldest(convs, t) ==
    LET P(c) == IsExecutingConvo(c, t)
        i == FirstIndex(convs, P)
    IN  IF i # 0
        THEN [isExecuting |-> TRUE, lastMessageTime |-> convs[Len(convs)].lastModified]
        ELSE [isExecuting |-> FALSE, lastMessageTime |-> 0]

CheckForExecuting(convs, t) ==
    LET P(c) == IsExecutingConvo(c, t)
        i == FirstIndex(convs, P)
    IN  IF i # 0
        THEN [isExecuting |-> TRUE, lastMessageTime |-> convs[i].lastModified]
        ELSE [isExecuting |-> FALSE, lastMessageTime |-> 0]

\* JSON.stringify(undefined) is undefined, and undefined.toLowerCase() throws
Throws == [isRecentlyFinished |-> FALSE, lastMessageTime |-> 0, threw |-> TRUE]

\* variant: no window, a finished conversation stays finished
CheckForRecentlyFinishedForever(convs, startup, t) ==
    LET no == [isRecentlyFinished |-> FALSE, lastMessageTime |-> 0, threw |-> FALSE]
    IN  IF convs = <<>> THEN no
        ELSE LET c == convs[1] IN
             IF c.lastMessage.present
             THEN IF Truthy(startup) /\ c.lastModified < startup THEN no
                  ELSE IF c.lastMessage.content = None THEN Throws
                  ELSE IF HasToolUse(c.lastMessage.content) THEN no
                  ELSE [isRecentlyFinished |-> TRUE,
                        lastMessageTime |-> c.lastModified, threw |-> FALSE]
             ELSE no

\* variant: the window of the waiting rule (5 minutes) instead of 30 minutes
CheckForRecentlyFinishedFiveMinutes(convs, startup, t) ==
    LET no == [isRecentlyFinished |-> FALSE, lastMessageTime |-> 0, threw |-> FALSE]
    IN  IF convs = <<>> THEN no
        ELSE LET c == convs[1] IN
             IF t - c.lastModified <= FIVE_MINUTES /\ c.lastMessage.present
             THEN IF Truthy(startup) /\ c.lastModified < startup THEN no
                  ELSE IF c.lastMessage.content = None THEN Throws
                  ELSE IF HasToolUse(c.lastMessage.content) THEN no
                  ELSE [isRecentlyFinished |-> TRUE,
                        lastMessageTime |-> c.lastModified, threw |-> FALSE]
             ELSE no

\* checkForRecentlyFinished; convs is sorted, startup is
\* workspaceStartupTimes.get(workspacePath)
CheckForRecentlyFinished(convs, startup, t) ==
    LET no == [isRecentlyFinished |-> FALSE, lastMessageTime |-> 0, threw |-> FALSE]
    IN  IF convs = <<>> THEN no
        ELSE LET c == convs[1] IN
             IF t - c.lastModified <= THIRTY_MINUTES /\ c.lastMessage.present
             THEN IF Truthy(startup) /\ c.lastModified < startup THEN no
                  ELSE IF c.lastMessage.content = None THEN Throws
                  ELSE IF HasToolUse(c.lastMessage.content) THEN no
                  ELSE [isRecentlyFinished |-> TRUE,
                        lastMessageTime |-> c.lastModified, threw |-> FALSE]
             ELSE no

\* ClaudeCodeStatusInfo; lastMessageTime 0 is an absent lastMessageTime
StatusInfo(status, lmt, count) ==
    [status |-> status, lastMessageTime |-> lmt, conversationCount |-> count]

\* undefined where a ClaudeCodeStatusInfo is expected
Undefined == StatusInfo(None, 0, 0)

\* getStatus from the sort on: the checks in their order, on the sorted
\* conversations; Undefined when checkForRecentlyFinished threw
Classify(convs, isProcessRunning, startup, t) ==
    LET n == Len(convs)
        w == CheckForWaitingInput(convs, t)
        e == CheckForExecuting(convs, t)
        r == CheckForRecentlyFinished(convs, startup, t)
    IN  IF w.isWaiting THEN StatusInfo("WaitingForInput", w.lastMessageTime, n)
        ELSE IF e.isExecuting THEN StatusInfo("Executing", e.lastMessageTime, n)
        ELSE IF r.threw THEN Undefined
        ELSE IF r.isRecentlyFinished
             THEN StatusInfo("RecentlyFinished", r.lastMessageTime, n)
        ELSE IF isProcessRunning THEN StatusInfo("Running", 0, n)
        ELSE StatusInfo("NotRunning", 0, n)

\* variant: the early return for an empty list left out
InferStatusNoEmptyCase(conversations, isProcessRunning, startup, t) ==
    Classify(SortDesc(conversations), isProcessRunning, startup, t)

\* getStatus after getWorkspaceConversations has returned conversations
InferStatus(conversations, isProcessRunning, startup, t) ==
    IF Len(conversations) = 0 THEN StatusInfo("NoSession", 0, 0)
    ELSE Classify(SortDesc(conversations), isProcessRunning, startup, t)

---------------------------------------------------------------------------
(* State *)

VARIABLES
    \* environment
    now,                      \* Date.now()
    fs,                       \* file path -> file
    dirExists,                \* directory -> whether it exists on disk
    events,                   \* watcher events raised and not yet delivered
    touches,                  \* number of timestamp-only touches so far
    osProcs,                  \* set of [pid, cwd]: the live processes matching "claude"
    \* ClaudeCodeMonitor
    conversationCache,        \* workspace -> <<>> or <<conversations>>
    conversationFileCache,    \* file path -> <<>> or <<metadata>>
    projectDirExistsCache,    \* directory -> "undefined", "true" or "false"
    projectFilesCache,        \* directory -> <<>> or <<listing>>
    fileSizeCache,            \* file path -> size, -1 when not set
    workingDirectoryCache,    \* file path -> <<>> or <<working directory>>
    workspaceStartupTimes,    \* workspace -> time, 0 when not set
    claudeProcessCache,       \* set of [pid, cwd]
    processMonitorInterval,   \* whether the field holds a timer handle
    timers,                   \* number of live setInterval process-rescan timers
    call,                     \* workspace -> the getStatus call in flight
    changing,                 \* file paths whose onDidChange callback awaits fs.stat
    scan,                     \* slot -> the updateClaudeProcessCache run in flight
    \* ClaudeCodeDecorator
    statusCache,              \* workspace -> StatusInfo or Undefined
    acknowledgedTimestamps,   \* workspace -> timestamp, 0 when absent
    ackTimers,                \* workspaces with a pending setTimeout(updateStatus)
    \* WorkspacesProvider
    isWindowFocused,
    workspaces,               \* this.workspaces, as the set of their paths
    watchedWorkspaces,
    watchers,                 \* workspace -> number of watchers created for its log directory
    disposed,                 \* whether dispose() has run
    resolved,                 \* workspace paths and the log directories resolved for them
    loading,                  \* the loadWorkspaces run in flight
    overlap,                  \* a second loadWorkspaces run in flight
    pending,                  \* updateStatus calls the running callback is yet to make
    \* history (not program state): what the last operations did
    ret,                      \* the last return of getStatus
    upd,                      \* the last completion of updateStatus
    computed,                 \* workspace -> <<>> or <<result of its last updateStatus, its instant>>
    lastAck,                  \* the last markAsAcknowledged that recorded a timestamp
    lastScan,                 \* the last completion of updateClaudeProcessCache
    delivered                 \* workspace -> change events handled since its last getStatus began

envVars   == <<now, fs, dirExists, events, touches, osProcs>>
cacheVars == <<conversationCache, conversationFileCache, projectDirExistsCache,
               projectFilesCache, fileSizeCache, workingDirectoryCache,
               workspaceStartupTimes>>
procVars  == <<claudeProcessCache, processMonitorInterval, timers, scan>>
decoVars  == <<statusCache, acknowledgedTimestamps>>
provVars  == <<isWindowFocused, workspaces, watchedWorkspaces, watchers, disposed,
               resolved>>
schedVars == <<ackTimers, loading, overlap, pending>>
histVars  == <<ret, upd, computed, lastAck, lastScan, delivered>>
vars == <<envVars, cacheVars, procVars, call, changing, decoVars, provVars,
          schedVars, histVars>>

\* no getStatus call in flight
Idle == [pc |-> "idle", caller |-> "none", running |-> FALSE, ageThreshold |-> 0,
         files |-> <<>>, i |-> 0, convs |-> <<>>, sample |-> <<>>,
         focused |-> TRUE, first |-> FALSE, after |-> {}, table |-> {},
         head |-> FALSE]

NoRet == [w |-> <<>>, info |-> Undefined, convs |-> <<>>, t |-> 0, startup |-> 0,
          running |-> FALSE, hit |-> FALSE, first |-> FALSE, after |-> {},
          table |-> {}]
NoUpd == [w |-> <<>>, info |-> Undefined, old |-> Undefined, new |-> Undefined,
          prev |-> <<>>, changed |-> FALSE, focused |-> TRUE, t |-> 0,
          ackBefore |-> 0, ackAfter |-> 0, display |-> None, maxLm |-> 0]
NoAck == [w |-> <<>>, status |-> None, t |-> 0, display |-> None]
\* no completed scan yet; then: the pids its listing held, and the process
\* table before its last step and after it
NoScan == [done |-> FALSE, listed |-> {}, evicted |-> {}]

---------------------------------------------------------------------------
(* ClaudeCodeDecorator: displayed status, change detection *)

\* variant: WaitingForInput is replaced by Running too
DisplayedStatusAlsoWaiting(info, acknowledgedTime) ==
    IF info = Undefined THEN None
    ELSE IF /\ Truthy(acknowledgedTime)
            /\ Truthy(info.lastMessageTime)
            /\ info.lastMessageTime <= acknowledgedTime
            /\ info.status \in {"RecentlyFinished", "Executing", "WaitingForInput"}
         THEN "Running"
         ELSE info.status

\* provideFileDecoration: the status the badge is chosen from (None: no
\* status info, no decoration)
DisplayedStatus(info, acknowledgedTime) ==
    IF info = Undefined THEN None
    ELSE IF /\ Truthy(acknowledgedTime)
            /\ Truthy(info.lastMessageTime)
            /\ info.lastMessageTime <= acknowledgedTime
            /\ info.status \in {"RecentlyFinished", "Executing"}
         THEN "Running"
         ELSE info.status

Display(w) == DisplayedStatus(statusCache[w], acknowledgedTimestamps[w])

\* variant: an equal timestamp clears the acknowledgement as well
ClearsAcknowledgementNotOlder(acknowledgedTime, status) ==
    /\ Truthy(acknowledgedTime)
    /\ Truthy(status.lastMessageTime)
    /\ status.lastMessageTime >= acknowledgedTime

\* variant: the comparison of the timestamps turned round
ClearsAcknowledgementOlder(acknowledgedTime, status) ==
    /\ Truthy(acknowledgedTime)
    /\ Truthy(status.lastMessageTime)
    /\ status.lastMessageTime < acknowledgedTime

\* updateStatus: whether the acknowledgement is cleared
ClearsAcknowledgement(acknowledgedTime, status) ==
    /\ Truthy(acknowledgedTime)
    /\ Truthy(status.lastMessageTime)
    /\ status.lastMessageTime > acknowledgedTime

\* updateStatus: statusChanged
StatusChanged(oldStatus, status) ==
    \/ oldStatus = Undefined
    \/ oldStatus.status # status.status
    \/ oldStatus.lastMessageTime # status.lastMessageTime

RECURSIVE MaxLastModified(_)
MaxLastModified(convs) ==
    IF convs = <<>> THEN 0
    ELSE LET m == MaxLastModified(Tail(convs))
         IN  IF Head(convs).lastModified > m THEN Head(convs).lastModified ELSE m

\* variant: a failed computation empties the status cache
UpdateStatusResumeClearsOnFailure(w, status, focused, convs) ==
    LET oldStatus == statusCache[w]
        ack       == acknowledgedTimestamps[w]
        ack2      == IF ClearsAcknowledgement(ack, status) THEN 0 ELSE ack
        changed   == StatusChanged(oldStatus, status)
        new       == IF changed THEN status ELSE oldStatus
    IN  /\ acknowledgedTimestamps' = [acknowledgedTimestamps EXCEPT ![w] = ack2]
        /\ statusCache' = IF status = Undefined
                          THEN [v \in Workspaces |-> Undefined]
                          ELSE [statusCache EXCEPT ![w] = new]
        /\ computed' = [computed EXCEPT ![w] = <<status, now>>]
        /\ upd' = [w |-> w, info |-> status, old |-> oldStatus, new |-> new,
                   prev |-> computed[w], changed |-> changed, focused |-> focused,
                   t |-> now,
                   ackBefore |-> ack, ackAfter |-> ack2,
                   display |-> DisplayedStatus(new, ack2),
                   maxLm |-> MaxLastModified(convs)]

\* updateStatus from the return of getStatus (status) to its own return
UpdateStatusResume(w, status, focused, convs) ==
    LET oldStatus == statusCache[w]
        ack       == acknowledgedTimestamps[w]
        ack2      == IF ClearsAcknowledgement(ack, status) THEN 0 ELSE ack
        changed   == StatusChanged(oldStatus, status)
        new       == IF changed THEN status ELSE oldStatus
    IN  /\ acknowledgedTimestamps' = [acknowledgedTimestamps EXCEPT ![w] = ack2]
        /\ statusCache' = [statusCache EXCEPT ![w] = new]
        /\ computed' = [computed EXCEPT ![w] = <<status, now>>]
        /\ upd' = [w |-> w, info |-> status, old |-> oldStatus, new |-> new,
                   prev |-> computed[w], changed |-> changed, focused |-> focused,
                   t |-> now,
                   ackBefore |-> ack, ackAfter |-> ack2,
                   display |-> DisplayedStatus(new, ack2),
                   maxLm |-> MaxLastModified(convs)]

---------------------------------------------------------------------------
(* ClaudeCodeMonitor.getStatus and getWorkspaceConversations *)

\* variant: a working directory whose string merely begins with the
\* workspace path counts as below it
IsDescendantByPrefix(cwd, w) ==
    /\ Len(cwd) > Len(w)
    /\ SubSeq(cwd, 1, Len(w)) = w

\* cwd.startsWith(workspace + path.sep)
IsDescendant(cwd, w) ==
    /\ Len(cwd) > Len(w)
    /\ SubSeq(cwd, 1, Len(w)) = w
    /\ cwd[Len(w) + 1] = "/"

\* isClaudeProcessRunning
IsClaudeProcessRunning(w) ==
    \E p \in claudeProcessCache : p.cwd = w \/ IsDescendant(p.cwd, w)

\* fs.readdir(projectDir) filtered to *.jsonl files, with the mtime of each
Listing(d) ==
    LET all == [k \in 1..Len(SessionNames) |->
                  [path |-> <<d, SessionNames[k]>>,
                   mtime |-> fs[<<d, SessionNames[k]>>].mtime]]
        Exists(e) == fs[e.path].exists
    IN  SelectSeq(all, Exists)

\* jsonlFiles = allFiles.filter((f) => f.mtime >= ageThreshold)
RecentFiles(allFiles, ageThreshold) ==
    LET Recent(e) == e.mtime >= ageThreshold IN SelectSeq(allFiles, Recent)

\* the for loop over jsonlFiles from index i, up to the first file that is
\* not in conversationFileCache (a read is needed) or to the end
RECURSIVE Collect(_, _, _, _)
Collect(files, i, convs, fcache) ==
    IF i > Len(files) THEN [done |-> TRUE, i |-> i, convs |-> convs]
    ELSE IF fcache[files[i].path] # <<>>
         THEN Collect(files, i + 1, Append(convs, fcache[files[i].path][1]), fcache)
         ELSE [done |-> FALSE, i |-> i, convs |-> convs]

\* what a run of getStatus that does not return leaves alone
retVars == <<conversationCache, ret, statusCache, acknowledgedTimestamps, upd, computed>>

\* getStatus returns info, computed from convs, to its caller
Return(w, c, info, convs, hit, startup) ==
    /\ ret' = [w |-> w, info |-> info, convs |-> convs, t |-> now,
               startup |-> startup, running |-> c.running, hit |-> hit,
               first |-> c.first, after |-> c.after, table |-> c.table]
    /\ IF c.caller = "updateStatus"
       THEN UpdateStatusResume(w, info, c.focused, convs)
       ELSE UNCHANGED <<statusCache, acknowledgedTimestamps, upd, computed>>

\* variant: the monitoring-start time of a first call is recorded after the
\* inference instead of before it
FinishStartupAfter(w, c, convs, hit, startup) ==
    LET sorted == SortDesc(convs)
        used   == IF c.first THEN 0 ELSE startup
    IN  /\ conversationCache' = [conversationCache EXCEPT ![w] = <<sorted>>]
        /\ call' = [call EXCEPT ![w] = Idle]
        /\ Return(w, c, InferStatus(convs, c.running, used, now), sorted, hit, startup)

\* getWorkspaceConversations returns convs (the array it also leaves in
\* conversationCache, which getStatus then sorts in place), and getStatus
\* infers the status from it
Finish(w, c, convs, hit, startup) ==
    LET sorted == SortDesc(convs)
    IN  /\ conversationCache' = [conversationCache EXCEPT ![w] = <<sorted>>]
        /\ call' = [call EXCEPT ![w] = Idle]
        /\ Return(w, c, InferStatus(convs, c.running, startup, now), sorted, hit, startup)

\* the loop over the files, to its end or to the next read
Loop(w, c, files, i, convs, fcache, startup) ==
    LET r == Collect(files, i, convs, fcache)
    IN  IF r.done
        THEN Finish(w, c, r.convs, FALSE, startup)
        ELSE /\ call' = [call EXCEPT ![w] =
                           [c EXCEPT !.pc = "read", !.files = files,
                                     !.i = r.i, !.convs = r.convs]]
             /\ UNCHANGED retVars

\* after the directory is known to exist or not
AfterAccess(w, c, exists, startup) ==
    IF ~exists
    THEN Finish(w, c, <<>>, FALSE, startup)
    ELSE LET d  == ProjectDir(w)
             c1 == [c EXCEPT !.ageThreshold = now - FILE_AGE_THRESHOLD_MS]
         IN  IF projectFilesCache[d] # <<>>
             THEN Loop(w, c1, projectFilesCache[d][1], 1, <<>>,
                       conversationFileCache, startup)
             ELSE /\ call' = [call EXCEPT ![w] = [c1 EXCEPT !.pc = "readdir"]]
                  /\ UNCHANGED retVars

\* getStatus(w) is called and runs to its first file-system await, or, when
\* conversationCache holds the workspace, to its return
GetStatusStart(w, caller) ==
    /\ call[w].pc = "idle"
    /\ LET startup == IF workspaceStartupTimes[w] = 0
                      THEN now ELSE workspaceStartupTimes[w]
           d  == ProjectDir(w)
           c0 == [Idle EXCEPT !.caller = caller,
                              !.running = IsClaudeProcessRunning(w),
                              !.focused = isWindowFocused,
                              !.first = (workspaceStartupTimes[w] = 0),
                              !.after = delivered[w],
                              !.table = claudeProcessCache]
       IN  /\ workspaceStartupTimes' = [workspaceStartupTimes EXCEPT ![w] = startup]
           /\ delivered' = [delivered EXCEPT ![w] = {}]
           /\ IF conversationCache[w] # <<>>
              THEN Finish(w, c0, conversationCache[w][1], TRUE, startup)
              ELSE IF projectDirExistsCache[d] = "undefined"
              THEN /\ call' = [call EXCEPT ![w] = [c0 EXCEPT !.pc = "access"]]
                   /\ UNCHANGED retVars
              ELSE AfterAccess(w, c0, projectDirExistsCache[d] = "true", startup)
    /\ UNCHANGED <<envVars, procVars, changing, provVars, lastAck, lastScan,
                   conversationFileCache, projectDirExistsCache,
                   projectFilesCache, fileSizeCache, workingDirectoryCache>>

\* fs.access(projectDir) completes
AccessDone(w) ==
    /\ call[w].pc = "access"
    /\ LET d == ProjectDir(w)
       IN  /\ projectDirExistsCache' =
                [projectDirExistsCache EXCEPT
                   ![d] = IF dirExists[d] THEN "true" ELSE "false"]
           /\ AfterAccess(w, call[w], dirExists[d], workspaceStartupTimes[w])
    /\ UNCHANGED <<envVars, procVars, changing, schedVars, provVars, lastAck, lastScan,
                   delivered, conversationFileCache, projectFilesCache,
                   fileSizeCache, workingDirectoryCache, workspaceStartupTimes>>

\* fs.readdir and the fs.stat of every entry complete; a missing directory
\* makes readdir throw into the outer catch, with no conversation collected
ReaddirIO(w) ==
    /\ call[w].pc = "readdir"
    /\ LET d == ProjectDir(w)
       IN  IF dirExists[d]
           THEN /\ call' = [call EXCEPT ![w] =
                              [@ EXCEPT !.pc = "readdirDone", !.files = Listing(d)]]
                /\ UNCHANGED retVars
           ELSE Finish(w, call[w], <<>>, FALSE, workspaceStartupTimes[w])
    /\ UNCHANGED <<envVars, procVars, changing, schedVars, provVars, lastAck, lastScan,
                   delivered, conversationFileCache, projectDirExistsCache,
                   projectFilesCache, fileSizeCache, workingDirectoryCache,
                   workspaceStartupTimes>>

\* getWorkspaceConversations resumes with the listing: filters it, caches it
\* and starts the loop over the files
ReaddirResume(w) ==
    /\ call[w].pc = "readdirDone"
    /\ LET d     == ProjectDir(w)
           files == RecentFiles(call[w].files, call[w].ageThreshold)
       IN  /\ projectFilesCache' = [projectFilesCache EXCEPT ![d] = <<files>>]
           /\ Loop(w, call[w], files, 1, <<>>, conversationFileCache,
                   workspaceStartupTimes[w])
    /\ UNCHANGED <<envVars, procVars, changing, schedVars, provVars, lastAck, lastScan,
                   delivered, conversationFileCache, projectDirExistsCache,
                   fileSizeCache, workingDirectoryCache, workspaceStartupTimes>>

\* readConversationFile reads the file (it throws when the file is gone):
\* the head, when workingDirectoryCache gives no working directory, then the
\* tail
ReadIO(w) ==
    /\ call[w].pc = "read"
    /\ LET f    == call[w].files[call[w].i].path
           head == fs[f].exists /\ NoWorkingDirectory(workingDirectoryCache[f])
       IN  /\ call' = [call EXCEPT ![w] =
                         [@ EXCEPT !.pc = "readDone", !.head = head,
                                   !.sample = IF fs[f].exists
                                              THEN <<ReadConversationFile(f, fs[f])>>
                                              ELSE <<>>]]
           /\ workingDirectoryCache' =
                IF head
                THEN [workingDirectoryCache EXCEPT ![f] = <<HeadCwd(w, fs[f])>>]
                ELSE workingDirectoryCache
    /\ UNCHANGED <<envVars, conversationCache, conversationFileCache,
                   projectDirExistsCache, projectFilesCache, fileSizeCache,
                   workspaceStartupTimes, procVars, changing, decoVars, provVars,
                   schedVars, histVars>>

\* the loop resumes with the metadata read: caches it, pushes it and goes on
ReadResume(w) ==
    /\ call[w].pc = "readDone"
    /\ LET c      == call[w]
           f      == c.files[c.i].path
           fcache == IF c.sample # <<>>
                     THEN [conversationFileCache EXCEPT ![f] = c.sample]
                     ELSE conversationFileCache
           convs  == IF c.sample # <<>> THEN Append(c.convs, c.sample[1]) ELSE c.convs
       IN  /\ conversationFileCache' = fcache
           /\ Loop(w, [c EXCEPT !.sample = <<>>, !.head = FALSE], c.files, c.i + 1, convs, fcache,
                   workspaceStartupTimes[w])
    /\ UNCHANGED <<envVars, procVars, changing, schedVars, provVars, lastAck, lastScan,
                   delivered, projectDirExistsCache, projectFilesCache,
                   fileSizeCache, workingDirectoryCache, workspaceStartupTimes>>

---------------------------------------------------------------------------
(* The environment: the clock, the agent writing session logs, other windows *)

\* the workspace whose watcher covers directory d
OwnerOf(d) == CHOOSE w \in Workspaces : ProjectDir(w) = d

\* a watcher event is raised when the directory's workspace is watched
Raise(kind, f) ==
    IF OwnerOf(f[1]) \in watchedWorkspaces THEN events \cup {<<kind, f>>} ELSE events

\* time passes: the clock shows t
Tick(t) ==
    /\ t > now
    /\ now' = t
    /\ UNCHANGED <<fs, dirExists, events, touches, osProcs, cacheVars, procVars,
                   call, changing, decoVars, provVars, schedVars, histVars>>

RECURSIVE SumLines(_)
SumLines(S) ==
    IF S = {} THEN 0
    ELSE LET f == CHOOSE x \in S : TRUE IN Len(fs[f].lines) + SumLines(S \ {f})

TotalLines == SumLines(FilePaths)

\* a record is appended to session file f (which is created if need be)
AgentAppend(f, rec) ==
    /\ TotalLines < MaxLines
    /\ fs' = [fs EXCEPT ![f] = [exists |-> TRUE, lines |-> Append(@.lines, rec),
                                mtime |-> now]]
    /\ dirExists' = [dirExists EXCEPT ![f[1]] = TRUE]
    /\ events' = Raise(IF fs[f].exists THEN "change" ELSE "create", f)
    /\ UNCHANGED <<now, touches, osProcs, cacheVars, procVars, call, changing,
                   decoVars, provVars, schedVars, histVars>>

\* fs.utimes on f: the timestamp changes, the content does not
TouchFile(f) ==
    /\ fs[f].exists
    /\ touches < MaxTouches
    /\ touches' = touches + 1
    /\ fs' = [fs EXCEPT ![f].mtime = now]
    /\ events' = Raise("change", f)
    /\ UNCHANGED <<now, dirExists, osProcs, cacheVars, procVars, call, changing,
                   decoVars, provVars, schedVars, histVars>>

\* session file f is removed
DeleteFile(f) ==
    /\ fs[f].exists
    /\ fs' = [fs EXCEPT ![f] = NoFile]
    /\ events' = Raise("delete", f)
    /\ UNCHANGED <<now, dirExists, touches, osProcs, cacheVars, procVars, call,
                   changing, decoVars, provVars, schedVars, histVars>>

---------------------------------------------------------------------------
(* ClaudeCodeMonitor.watchWorkspace: the watcher callbacks *)

\* onDidChange is called for f and awaits fs.stat; the events of a file
\* come in their order: its creation before its changes
ChangeStart(f) ==
    /\ <<"change", f>> \in events
    /\ <<"create", f>> \notin events
    /\ f \notin changing
    /\ events' = events \ {<<"change", f>>}
    /\ changing' = changing \cup {f}
    /\ UNCHANGED <<now, fs, dirExists, touches, osProcs, cacheVars, procVars, call,
                   decoVars, provVars, schedVars, histVars>>

\* variant: the invalidation of onDidChange drops every file summary
ChangeResumeDropsAll(f) ==
    /\ f \in changing
    /\ changing' = changing \ {f}
    /\ LET w       == OwnerOf(f[1])
           size    == FileSize(fs[f])
           oldSize == fileSizeCache[f]
       IN  /\ fileSizeCache' = IF fs[f].exists
                               THEN [fileSizeCache EXCEPT ![f] = size]
                               ELSE fileSizeCache
           /\ workspaceStartupTimes' =
                IF fs[f].exists /\ oldSize # -1 /\ oldSize = size
                THEN [workspaceStartupTimes EXCEPT ![w] = now]
                ELSE workspaceStartupTimes
           /\ conversationFileCache' = [g \in FilePaths |-> <<>>]
           /\ conversationCache' = [conversationCache EXCEPT ![w] = <<>>]
           /\ delivered' =
                [delivered EXCEPT ![w] = @ \cup
                   {<<f, IF fs[f].exists
                         THEN ReadConversationFile(f, fs[f]).lastModified ELSE 0>>}]
    /\ UNCHANGED <<envVars, projectDirExistsCache, projectFilesCache,
                   workingDirectoryCache, procVars, call, decoVars, provVars,
                   schedVars, ret, upd, computed, lastAck, lastScan>>

\* onDidChange resumes after fs.stat (which throws when f is gone): the size
\* check, then the invalidation
ChangeResume(f) ==
    /\ f \in changing
    /\ changing' = changing \ {f}
    /\ LET w       == OwnerOf(f[1])
           size    == FileSize(fs[f])
           oldSize == fileSizeCache[f]
       IN  /\ fileSizeCache' = IF fs[f].exists
                               THEN [fileSizeCache EXCEPT ![f] = size]
                               ELSE fileSizeCache
           /\ workspaceStartupTimes' =
                IF fs[f].exists /\ oldSize # -1 /\ oldSize = size
                THEN [workspaceStartupTimes EXCEPT ![w] = now]
                ELSE workspaceStartupTimes
           /\ conversationFileCache' = [conversationFileCache EXCEPT ![f] = <<>>]
           /\ conversationCache' = [conversationCache EXCEPT ![w] = <<>>]
           /\ delivered' =
                [delivered EXCEPT ![w] = @ \cup
                   {<<f, IF fs[f].exists
                         THEN ReadConversationFile(f, fs[f]).lastModified ELSE 0>>}]
    /\ UNCHANGED <<envVars, projectDirExistsCache, projectFilesCache,
                   workingDirectoryCache, procVars, call, decoVars, provVars,
                   schedVars, ret, upd, computed, lastAck, lastScan>>

\* variant: onDidCreate drops the conversation list of every workspace
OnDidCreateDropsAll(f) ==
    /\ <<"create", f>> \in events
    /\ events' = events \ {<<"create", f>>}
    /\ projectFilesCache' = [projectFilesCache EXCEPT ![f[1]] = <<>>]
    /\ conversationCache' = [w \in Workspaces |-> <<>>]
    /\ UNCHANGED <<now, fs, dirExists, touches, osProcs, conversationFileCache,
                   projectDirExistsCache, fileSizeCache, workingDirectoryCache,
                   workspaceStartupTimes,
                   procVars, call, changing, decoVars, provVars, schedVars, histVars>>

\* onDidCreate
OnDidCreate(f) ==
    /\ <<"create", f>> \in events
    /\ events' = events \ {<<"create", f>>}
    /\ projectFilesCache' = [projectFilesCache EXCEPT ![f[1]] = <<>>]
    /\ conversationCache' = [conversationCache EXCEPT ![OwnerOf(f[1])] = <<>>]
    /\ UNCHANGED <<now, fs, dirExists, touches, osProcs, conversationFileCache,
                   projectDirExistsCache, fileSizeCache, workingDirectoryCache,
                   workspaceStartupTimes,
                   procVars, call, changing, decoVars, provVars, schedVars, histVars>>

\* variant: onDidDelete drops every file summary
OnDidDeleteDropsAll(f) ==
    /\ <<"delete", f>> \in events
    /\ events' = events \ {<<"delete", f>>}
    /\ conversationFileCache' = [g \in FilePaths |-> <<>>]
    /\ projectFilesCache' = [projectFilesCache EXCEPT ![f[1]] = <<>>]
    /\ conversationCache' = [conversationCache EXCEPT ![OwnerOf(f[1])] = <<>>]
    /\ UNCHANGED <<now, fs, dirExists, touches, osProcs, projectDirExistsCache,
                   fileSizeCache, workingDirectoryCache, workspaceStartupTimes,
                   procVars, call, changing, decoVars, provVars, schedVars, histVars>>

\* onDidDelete
OnDidDelete(f) ==
    /\ <<"delete", f>> \in events
    /\ events' = events \ {<<"delete", f>>}
    /\ conversationFileCache' = [conversationFileCache EXCEPT ![f] = <<>>]
    /\ projectFilesCache' = [projectFilesCache EXCEPT ![f[1]] = <<>>]
    /\ conversationCache' = [conversationCache EXCEPT ![OwnerOf(f[1])] = <<>>]
    /\ UNCHANGED <<now, fs, dirExists, touches, osProcs, projectDirExistsCache,
                   fileSizeCache, workingDirectoryCache,
                   workspaceStartupTimes, procVars, call, changing,
                   decoVars, provVars, schedVars, histVars>>

\* clearCache
ClearCache ==
    /\ conversationCache' = [w \in Workspaces |-> <<>>]
    /\ conversationFileCache' = [f \in FilePaths |-> <<>>]
    /\ projectDirExistsCache' = [d \in Dirs |-> None]
    /\ projectFilesCache' = [d \in Dirs |-> <<>>]
    /\ UNCHANGED <<envVars, fileSizeCache, workingDirectoryCache,
                   workspaceStartupTimes, procVars, call, changing, decoVars,
                   provVars, schedVars, histVars>>

---------------------------------------------------------------------------
(* ClaudeCodeDecorator and WorkspacesProvider: who calls getStatus, and when *)

\* At most one getStatus call per workspace is in flight in the model: a
\* caller whose workspace has one skips that workspace.
Startable(ws) == {w \in ws : call[w].pc = "idle"}

\* updateClaudeCodeStatus -> updateAllStatuses: updateStatus is called for
\* every workspace of the list within the running callback
UpdateClaudeCodeStatus == pending' = Startable(workspaces)

\* the next updateStatus(w) of the running callback: it calls getStatus
StartPending(w) ==
    /\ w \in pending
    /\ pending' = pending \ {w}
    /\ GetStatusStart(w, "updateStatus")
    /\ UNCHANGED <<ackTimers, loading, overlap>>

\* the setInterval callback of startMonitoring
MonitoringTimerFires ==
    /\ isWindowFocused
    /\ Startable(workspaces) # {}
    /\ UpdateClaudeCodeStatus
    /\ UNCHANGED <<envVars, cacheVars, procVars, call, changing, decoVars, provVars,
                   ackTimers, loading, overlap, histVars>>

\* variant: a click acknowledges every workspace that has a timestamp
MarkAsAcknowledgedAll(w) ==
    /\ w \in workspaces
    /\ Truthy(statusCache[w].lastMessageTime)
    /\ acknowledgedTimestamps' =
         [v \in Workspaces |->
            IF Truthy(statusCache[v].lastMessageTime)
            THEN statusCache[v].lastMessageTime ELSE acknowledgedTimestamps[v]]
    /\ ackTimers' = ackTimers \cup {w}
    /\ lastAck' = [w |-> w, status |-> statusCache[w].status,
                   t |-> statusCache[w].lastMessageTime,
                   display |-> DisplayedStatus(statusCache[w],
                                               statusCache[w].lastMessageTime)]
    /\ UNCHANGED <<envVars, cacheVars, procVars, call, changing, statusCache,
                   provVars, loading, overlap, pending, ret, upd, computed, lastScan,
                   delivered>>

\* focusWorkspace(item) -> markAsAcknowledged(w)
MarkAsAcknowledged(w) ==
    /\ w \in workspaces
    /\ Truthy(statusCache[w].lastMessageTime)
    /\ acknowledgedTimestamps' =
         [acknowledgedTimestamps EXCEPT ![w] = statusCache[w].lastMessageTime]
    /\ ackTimers' = ackTimers \cup {w}
    /\ lastAck' = [w |-> w, status |-> statusCache[w].status,
                   t |-> statusCache[w].lastMessageTime,
                   display |-> DisplayedStatus(statusCache[w],
                                               statusCache[w].lastMessageTime)]
    /\ UNCHANGED <<envVars, cacheVars, procVars, call, changing, statusCache,
                   provVars, loading, overlap, pending, ret, upd, computed, lastScan,
                   delivered>>

\* the setTimeout(() => this.updateStatus(workspacePath), 100) of
\* markAsAcknowledged fires
AckTimerFires(w) ==
    /\ w \in ackTimers
    /\ call[w].pc = "idle"
    /\ ackTimers' = ackTimers \ {w}
    /\ pending' = {w}
    /\ UNCHANGED <<envVars, cacheVars, procVars, call, changing, decoVars, provVars,
                   loading, overlap, histVars>>

\* refresh() -> loadWorkspaces() has the list of open windows
RefreshStart(windows) ==
    /\ loading.windows = {}
    /\ windows # {}
    /\ loading' = [windows |-> windows, todo |-> windows]
    /\ UNCHANGED <<envVars, cacheVars, procVars, call, changing, decoVars, provVars,
                   ackTimers, overlap, pending, histVars>>

\* loadWorkspaces calls getStatus for one window
LoadGetStatus(w) ==
    /\ w \in loading.todo
    /\ loading' = [loading EXCEPT !.todo = @ \ {w}]
    /\ GetStatusStart(w, "loadWorkspaces")
    /\ UNCHANGED <<ackTimers, overlap, pending>>

\* variant: a watcher is created for every item, watched already or not
SetUpWatchersUnchecked(windows) ==
    /\ watchers' = [w \in Workspaces |->
                      IF w \in windows THEN watchers[w] + 1 ELSE watchers[w]]
    /\ watchedWorkspaces' = watchedWorkspaces \cup windows

\* the for loop at the end of loadWorkspaces: a watcher is created for
\* every item whose path is not in watchedWorkspaces, and the path is added
SetUpWatchers(windows) ==
    /\ watchers' = [w \in Workspaces |->
                      IF w \in windows \ watchedWorkspaces
                      THEN watchers[w] + 1 ELSE watchers[w]]
    /\ watchedWorkspaces' = watchedWorkspaces \cup windows

\* loadWorkspaces has every item: it replaces the list and creates the
\* watchers of the workspaces that have none
RefreshEnd ==
    /\ loading.windows # {}
    /\ loading.todo = {}
    /\ \A w \in loading.windows : call[w].caller # "loadWorkspaces"
    /\ workspaces' = loading.windows
    /\ SetUpWatchers(loading.windows)
    /\ loading' = [windows |-> {}, todo |-> {}]
    /\ UNCHANGED <<envVars, cacheVars, procVars, call, changing, decoVars,
                   isWindowFocused, disposed, resolved, ackTimers, overlap, pending,
                   histVars>>

\* refresh() is called again while a loadWorkspaces run is in flight: a
\* second run begins
OverlapStart(windows) ==
    /\ loading.windows # {}
    /\ overlap.windows = {}
    /\ windows # {}
    /\ overlap' = [windows |-> windows, todo |-> windows]
    /\ UNCHANGED <<envVars, cacheVars, procVars, call, changing, decoVars, provVars,
                   ackTimers, loading, pending, histVars>>

\* the second run calls getStatus for one window
OverlapGetStatus(w) ==
    /\ w \in overlap.todo
    /\ overlap' = [overlap EXCEPT !.todo = @ \ {w}]
    /\ GetStatusStart(w, "overlap")
    /\ UNCHANGED <<ackTimers, loading, pending>>

\* the second run has every item
OverlapEnd ==
    /\ overlap.windows # {}
    /\ overlap.todo = {}
    /\ \A w \in overlap.windows : call[w].caller # "overlap"
    /\ workspaces' = overlap.windows
    /\ SetUpWatchers(overlap.windows)
    /\ overlap' = [windows |-> {}, todo |-> {}]
    /\ UNCHANGED <<envVars, cacheVars, procVars, call, changing, decoVars,
                   isWindowFocused, disposed, resolved, ackTimers, loading, pending,
                   histVars>>

---------------------------------------------------------------------------
(* Process registry: updateClaudeProcessCache, start/stopProcessMonitoring *)

Pids == {"p1", "p2"}
\* the order of the lines of the listing
PidOrder == <<"p1", "p2">>
Ord(pid) == CHOOSE i \in 1..Len(PidOrder) : PidOrder[i] = pid
\* the first of a non-empty set of listed pids
FirstPid(S) == CHOOSE p \in S : \A q \in S : Ord(p) <= Ord(q)
ScanSlots == 1..MaxScans
IdleScan == [pc |-> "idle", origin |-> "none", pids |-> {}, todo |-> {}]

\* a process starts in directory cwd; a process exits
ProcStart(pid, cwd) ==
    /\ \A p \in osProcs : p.pid # pid
    /\ osProcs' = osProcs \cup {[pid |-> pid, cwd |-> cwd]}
    /\ UNCHANGED <<now, fs, dirExists, events, touches, cacheVars, procVars, call,
                   changing, decoVars, provVars, schedVars, histVars>>

ProcExit(pid) ==
    /\ \E p \in osProcs : p.pid = pid
    /\ osProcs' = {p \in osProcs : p.pid # pid}
    /\ UNCHANGED <<now, fs, dirExists, events, touches, cacheVars, procVars, call,
                   changing, decoVars, provVars, schedVars, histVars>>

CachedPids == {p.pid : p \in claudeProcessCache}

\* `lsof -a -p pid -d cwd 2>/dev/null | tail -1`, its last field normalized:
\* the cwd of a live process; for a process that is gone the output is empty
\* and path.normalize("") is "."
LsofCwd(pid) ==
    IF \E p \in osProcs : p.pid = pid
    THEN (CHOOSE p \in osProcs : p.pid = pid).cwd
    ELSE <<".">>

\* variant: the removal leaves every entry in the table
RemoveStoppedKeepsAll(cache, currentPids) == cache

\* the removal of the processes that the listing did not hold
RemoveStopped(cache, currentPids) == {p \in cache : p.pid \in currentPids}

\* updateClaudeProcessCache of slot s has returned.  When startProcessMonitoring
\* awaited it, that call goes on: it sets the interval and resolves, and the
\* provider's .then callback calls updateClaudeCodeStatus
ScanDone(s) ==
    /\ scan' = [scan EXCEPT ![s] = IdleScan]
    /\ IF scan[s].origin = "start"
       THEN /\ processMonitorInterval' = TRUE
            /\ timers' = timers + 1
            /\ UpdateClaudeCodeStatus
       ELSE UNCHANGED <<processMonitorInterval, timers, pending>>

\* a run of updateClaudeProcessCache begins in a free slot
ScanBegin(s, origin) ==
    /\ scan[s].pc = "idle"
    /\ \A r \in 1..(s - 1) : scan[r].pc # "idle"
    /\ scan' = [scan EXCEPT ![s] = [IdleScan EXCEPT !.pc = "ps", !.origin = origin]]

StartsInFlight == Cardinality({s \in ScanSlots : scan[s].origin = "start"})

\* startProcessMonitoring().then(() => this.updateClaudeCodeStatus())
StartProcessMonitoring ==
    IF processMonitorInterval
    THEN UpdateClaudeCodeStatus /\ UNCHANGED scan
    ELSE /\ timers + StartsInFlight < MaxTimers
         /\ \E s \in ScanSlots : ScanBegin(s, "start")
         /\ UNCHANGED pending

\* onDidChangeWindowState, focused: false -> true
FocusGained ==
    /\ ~isWindowFocused
    /\ isWindowFocused' = TRUE
    /\ StartProcessMonitoring
    /\ UNCHANGED <<envVars, cacheVars, claudeProcessCache, processMonitorInterval,
                   timers, call, changing, decoVars, workspaces, watchedWorkspaces, watchers,
                   disposed, resolved, ackTimers, loading, overlap, histVars>>

\* onDidChangeWindowState, focused: true -> false: stopProcessMonitoring
FocusLost ==
    /\ isWindowFocused
    /\ isWindowFocused' = FALSE
    /\ IF processMonitorInterval
       THEN processMonitorInterval' = FALSE /\ timers' = timers - 1
       ELSE UNCHANGED <<processMonitorInterval, timers>>
    /\ UNCHANGED <<envVars, cacheVars, claudeProcessCache, scan, call, changing,
                   decoVars, workspaces, watchedWorkspaces, watchers, disposed, resolved,
                   schedVars,
                   histVars>>

\* WorkspacesProvider.dispose -> ClaudeCodeMonitor.dispose:
\* stopProcessMonitoring, then the watchers are disposed, and with them the
\* events they have not delivered
Dispose ==
    /\ ~disposed
    /\ disposed' = TRUE
    /\ IF processMonitorInterval
       THEN processMonitorInterval' = FALSE /\ timers' = timers - 1
       ELSE UNCHANGED <<processMonitorInterval, timers>>
    /\ events' = {}
    /\ UNCHANGED <<now, fs, dirExists, touches, osProcs, cacheVars,
                   claudeProcessCache, scan, call, changing, decoVars,
                   isWindowFocused, workspaces, watchedWorkspaces, watchers, resolved,
                   schedVars,
                   histVars>>

\* a process-rescan interval fires
ProcessTimerFires ==
    /\ timers > 0
    /\ \E s \in ScanSlots : ScanBegin(s, "timer")
    /\ UNCHANGED <<envVars, cacheVars, claudeProcessCache, processMonitorInterval,
                   timers, call, changing, decoVars, provVars, schedVars, histVars>>

\* the for loop over the lines of the listing, from the pids still to visit:
\* it skips the pids the table holds, up to the first one that is not in
\* it (whose lsof is awaited) or to the end
RECURSIVE SkipCached(_, _)
SkipCached(todo, cache) ==
    IF todo = {} THEN {}
    ELSE LET p == FirstPid(todo)
         IN  IF \E e \in cache : e.pid = p
             THEN SkipCached(todo \ {p}, cache)
             ELSE todo

\* what a scan that completes records: the pids of its listing and the pids
\* its last step removes from the table
Scanned(listed, after) ==
    [done |-> TRUE, listed |-> listed,
     evicted |-> {p.pid : p \in claudeProcessCache} \ {p.pid : p \in after}]

\* `ps aux | grep -i claude` completes
ScanPs(s) ==
    /\ scan[s].pc = "ps"
    /\ LET listed == {p.pid : p \in osProcs}
           todo   == SkipCached(listed, claudeProcessCache)
           after  == IF listed = {} THEN {}
                     ELSE RemoveStopped(claudeProcessCache, listed)
       IN  IF todo = {}
           THEN /\ claudeProcessCache' = after
                /\ lastScan' = Scanned(listed, after)
                /\ ScanDone(s)
           ELSE /\ scan' = [scan EXCEPT ![s] = [@ EXCEPT !.pc = "lsof",
                                                !.pids = listed, !.todo = todo]]
                /\ UNCHANGED <<claudeProcessCache, processMonitorInterval, timers,
                               pending, lastScan>>
    /\ UNCHANGED <<envVars, cacheVars, call, changing, decoVars, provVars,
                   ackTimers, loading, overlap, ret, upd, computed, lastAck, delivered>>

\* the lsof of the listed process pid completes: claudeProcessCache.set, then
\* the loop goes on
ScanLsof(s, pid) ==
    /\ scan[s].pc = "lsof"
    /\ pid = FirstPid(scan[s].todo)
    /\ LET cache == {e \in claudeProcessCache : e.pid # pid}
                        \cup {[pid |-> pid, cwd |-> LsofCwd(pid)]}
           todo  == SkipCached(scan[s].todo \ {pid}, cache)
           after == RemoveStopped(cache, scan[s].pids)
       IN  IF todo = {}
           THEN /\ claudeProcessCache' = after
                /\ lastScan' = Scanned(scan[s].pids, after)
                /\ ScanDone(s)
           ELSE /\ claudeProcessCache' = cache
                /\ scan' = [scan EXCEPT ![s].todo = todo]
                /\ UNCHANGED <<processMonitorInterval, timers, pending, lastScan>>
    /\ UNCHANGED <<envVars, cacheVars, call, changing, decoVars, provVars,
                   ackTimers, loading, overlap, ret, upd, computed, lastAck, delivered>>

---------------------------------------------------------------------------
\* no workspace path is being resolved
NoResolved == [asked |-> {}, dirs |-> {}]

\* getStatus and watchWorkspace: projectDir of workspacePath, recorded with
\* the path
ResolveProjectDir(workspacePath) ==
    /\ workspacePath \in resolved.asked
    /\ resolved' = [asked |-> resolved.asked \ {workspacePath},
                    dirs |-> resolved.dirs \cup
                               {<<workspacePath, EncodeWorkspacePath(workspacePath)>>}]
    /\ UNCHANGED <<envVars, cacheVars, procVars, call, changing, decoVars,
                   isWindowFocused, workspaces, watchedWorkspaces, watchers, disposed,
                   schedVars, histVars>>

(* Initial states: the extension has been activated (the constructors have *)
(* run: the monitoring timer is set, startProcessMonitoring has been       *)
(* called if the window is focused), and refresh() has not run yet.        *)

\* a session file written before the activation, at instant 1
History(rec) == [exists |-> TRUE, lines |-> <<rec>>, mtime |-> 1]

\* the program after its construction, with no event raised yet
InitProgram(focusedChoices, procChoices) ==
    /\ events = {}
    /\ touches = 0
    /\ osProcs \in procChoices
    /\ conversationCache = [w \in Workspaces |-> <<>>]
    /\ conversationFileCache = [f \in FilePaths |-> <<>>]
    /\ projectDirExistsCache = [d \in Dirs |-> None]
    /\ projectFilesCache = [d \in Dirs |-> <<>>]
    /\ fileSizeCache = [f \in FilePaths |-> -1]
    /\ workingDirectoryCache = [f \in FilePaths |-> <<>>]
    /\ workspaceStartupTimes = [w \in Workspaces |-> 0]
    /\ claudeProcessCache = {}
    /\ processMonitorInterval = FALSE
    /\ timers = 0
    /\ call = [w \in Workspaces |-> Idle]
    /\ changing = {}
    /\ isWindowFocused \in focusedChoices
    /\ scan = [s \in ScanSlots |->
                 IF s = 1 /\ isWindowFocused
                 THEN [IdleScan EXCEPT !.pc = "ps", !.origin = "start"]
                 ELSE IdleScan]
    /\ statusCache = [w \in Workspaces |-> Undefined]
    /\ acknowledgedTimestamps = [w \in Workspaces |-> 0]
    /\ ackTimers = {}
    /\ workspaces = {}
    /\ watchedWorkspaces = {}
    /\ watchers = [w \in Workspaces |-> 0]
    /\ disposed = FALSE
    /\ loading = [windows |-> {}, todo |-> {}]
    /\ overlap = [windows |-> {}, todo |-> {}]
    /\ pending = {}
    /\ ret = NoRet
    /\ upd = NoUpd
    /\ computed = [w \in Workspaces |-> <<>>]
    /\ lastAck = NoAck
    /\ lastScan = NoScan
    /\ delivered = [w \in Workspaces |-> {}]

\* histFiles may hold one of histRecs each; a directory with no file exists
\* (empty) or not when it is one of emptyDirs
InitWith(histFiles, histRecs, emptyDirs, focusedChoices, procChoices) ==
    /\ now = 2
    /\ fs \in [FilePaths -> {NoFile} \cup {History(r) : r \in histRecs}]
    /\ \A f \in FilePaths \ histFiles : fs[f] = NoFile
    /\ dirExists \in [Dirs -> BOOLEAN]
    /\ \A d \in Dirs :
         IF \E f \in FilesOfDir(d) : fs[f].exists THEN dirExists[d]
         ELSE dirExists[d] => d \in emptyDirs
    /\ InitProgram(focusedChoices, procChoices)
    /\ resolved = NoResolved

---------------------------------------------------------------------------
(* Specifications *)

F11 == <<ProjectDir(W1), "s1">>
F12 == <<ProjectDir(W1), "s2">>
F21 == <<ProjectDir(W2), "s1">>

\* the steps of a getStatus call in flight
GetStatusSteps(w) ==
    \/ AccessDone(w)
    \/ ReaddirIO(w)
    \/ ReaddirResume(w)
    \/ ReadIO(w)
    \/ ReadResume(w)

\* the watcher callbacks
WatcherSteps(f) ==
    \/ ChangeStart(f)
    \/ ChangeResume(f)
    \/ OnDidCreate(f)
    \/ OnDidDelete(f)

\* nothing of the program is in flight
Quiescent ==
    /\ \A w \in Workspaces : call[w].pc = "idle"
    /\ \A s \in ScanSlots : scan[s].pc = "idle"
    /\ changing = {}
    /\ events = {}
    /\ loading.windows = {}
    /\ overlap.windows = {}

(* Status inference of one workspace with two session files.  The window   *)
(* stays focused; getStatus is called by loadWorkspaces, at every refresh; *)
(* the clock and the agent act when the program is quiescent, the agent    *)
(* once the workspace is listed.  F11 may hold a record older than the     *)
(* activation, and the directory may exist without any file.               *)
\* what the agent appends here: an assistant text or an assistant tool call
InferMenu(t) ==
    { Rec("assistant", "assistant", "text", t),
      Rec("assistant", "assistant", "tool_use", t) }

InitInfer ==
    InitWith({F11}, MessageMenu(1), {ProjectDir(W1)}, {TRUE},
             {{}, {[pid |-> "p1", cwd |-> W1]}})

NextInfer ==
    \/ \E f \in {F11, F12} : ChangeStart(f)
    \/ \E f \in {F11, F12} : ChangeResume(f)
    \/ \E f \in {F11, F12} : OnDidCreate(f)
    \/ LoadGetStatus(W1)
    \/ RefreshEnd
    \/ AccessDone(W1)
    \/ ReaddirIO(W1)
    \/ ReaddirResume(W1)
    \/ ReadIO(W1)
    \/ ReadResume(W1)
    \/ \E s \in ScanSlots : ScanPs(s)
    \/ \E s \in ScanSlots : \E pid \in Pids : ScanLsof(s, pid)
    \/ Quiescent /\ \E t \in Instants : Tick(t)
    \/ /\ Quiescent
       /\ workspaces # {}
       /\ \E f \in {F11, F12} : \E rec \in InferMenu(now) : AgentAppend(f, rec)
    \/ Quiescent /\ RefreshStart({W1})

SpecInfer == InitInfer /\ [][NextInfer]_vars

(* The decorator of one workspace with one session file: the periodic      *)
(* recompute, acknowledgements and focus changes.  The directory exists    *)
(* and is empty at the activation.  The environment and the user act when  *)
(* the program is quiescent.  The recompute timer (a few seconds) and the  *)
(* acknowledgement's timeout (100 ms) are shorter than a unit of the       *)
(* clock: the clock advances when no timeout is pending and, if the        *)
(* window is focused, the status has been recomputed at the current        *)
(* instant, after the last change of the session file.                     *)
AckMenu(t) ==
    { Rec("assistant", "assistant", "text", t),
      Rec("assistant", "assistant", "tool_use", t) }

InitAck ==
    /\ InitWith({}, {}, {ProjectDir(W1)}, {TRUE}, {{[pid |-> "p1", cwd |-> W1]}})
    /\ dirExists[ProjectDir(W1)]

\* the status of W1 has been recomputed at the current instant, and no
\* change of the session files has been seen since
Recomputed == upd.w = W1 /\ upd.t = now /\ conversationCache[W1] # <<>>

\* the clock may advance
Settled ==
    /\ Quiescent
    /\ ackTimers = {}
    /\ isWindowFocused /\ workspaces # {} => Recomputed

\* the calls a running callback still has to make come first
Ready == pending = {}

NextAck ==
    \/ StartPending(W1)
    \/ Ready /\ ChangeStart(F11)
    \/ Ready /\ ChangeResume(F11)
    \/ Ready /\ OnDidCreate(F11)
    \/ Ready /\ LoadGetStatus(W1)
    \/ Ready /\ RefreshEnd
    \/ Ready /\ AccessDone(W1)
    \/ Ready /\ ReaddirIO(W1)
    \/ Ready /\ ReaddirResume(W1)
    \/ Ready /\ ReadIO(W1)
    \/ Ready /\ ReadResume(W1)
    \/ Ready /\ \E s \in ScanSlots : ScanPs(s)
    \/ Ready /\ \E s \in ScanSlots : \E pid \in Pids : ScanLsof(s, pid)
    \/ Ready /\ AckTimerFires(W1)
    \/ Ready /\ Settled /\ \E t \in Instants : Tick(t)
    \/ /\ Ready /\ Quiescent /\ workspaces # {}
       /\ \E rec \in AckMenu(now) : AgentAppend(F11, rec)
    \/ Ready /\ Quiescent /\ workspaces = {} /\ RefreshStart({W1})
    \/ Ready /\ Quiescent /\ MonitoringTimerFires
    \/ Ready /\ Quiescent /\ isWindowFocused /\ MarkAsAcknowledged(W1)
    \/ Ready /\ Quiescent /\ ackTimers = {} /\ FocusLost
    \/ Ready /\ Quiescent /\ FocusGained

SpecAck == InitAck /\ [][NextAck]_vars

(* The periodic recompute of one workspace whose session file receives     *)
(* well-formed messages and messages without content.  The window stays    *)
(* focused.                                                                *)
ThrowMenu(t) ==
    { Rec("assistant", "assistant", "text", t),
      Rec("assistant", "assistant", None, t) }

NextThrow ==
    \/ StartPending(W1)
    \/ Ready /\ ChangeStart(F11)
    \/ Ready /\ ChangeResume(F11)
    \/ Ready /\ OnDidCreate(F11)
    \/ Ready /\ LoadGetStatus(W1)
    \/ Ready /\ RefreshEnd
    \/ Ready /\ AccessDone(W1)
    \/ Ready /\ ReaddirIO(W1)
    \/ Ready /\ ReaddirResume(W1)
    \/ Ready /\ ReadIO(W1)
    \/ Ready /\ ReadResume(W1)
    \/ Ready /\ \E s \in ScanSlots : ScanPs(s)
    \/ Ready /\ \E s \in ScanSlots : \E pid \in Pids : ScanLsof(s, pid)
    \/ Ready /\ Settled /\ \E t \in Instants : Tick(t)
    \/ /\ Ready /\ Quiescent /\ workspaces # {}
       /\ \E rec \in ThrowMenu(now) : AgentAppend(F11, rec)
    \/ Ready /\ Quiescent /\ workspaces = {} /\ RefreshStart({W1})
    \/ Ready /\ Quiescent /\ MonitoringTimerFires

SpecThrow == InitAck /\ [][NextThrow]_vars

(* Races of the watcher callbacks with getStatus: one workspace, one       *)
(* session file that is created after the activation and receives its      *)
(* records at any moment; loadWorkspaces and the periodic recompute call    *)
(* getStatus at any moment.  No agent process runs.  The clock advances    *)
(* once.                                                                   *)
RaceMenu(t) == {Rec("assistant", "assistant", "text", t)}

InitRace ==
    /\ InitWith({}, {}, {ProjectDir(W1)}, {TRUE}, {{}})
    /\ dirExists[ProjectDir(W1)]

NextRace ==
    \/ StartPending(W1)
    \/ Ready /\ ChangeStart(F11)
    \/ Ready /\ ChangeResume(F11)
    \/ Ready /\ OnDidCreate(F11)
    \/ Ready /\ LoadGetStatus(W1)
    \/ Ready /\ RefreshEnd
    \/ Ready /\ AccessDone(W1)
    \/ Ready /\ ReaddirIO(W1)
    \/ Ready /\ ReaddirResume(W1)
    \/ Ready /\ ReadIO(W1)
    \/ Ready /\ ReadResume(W1)
    \/ Ready /\ \E s \in ScanSlots : ScanPs(s)
    \/ Ready /\ Tick(3)
    \/ Ready /\ \E rec \in RaceMenu(now) : AgentAppend(F11, rec)
    \/ Ready /\ RefreshStart({W1})
    \/ Ready /\ MonitoringTimerFires

SpecRace == InitRace /\ [][NextRace]_vars

(* Focus changes of the window against the process scans, the recompute    *)
(* timer and acknowledgements: one workspace whose session file holds a    *)
(* tool call older than the activation (its status carries a timestamp),   *)
(* one agent process that starts and exits; the clock stands still.        *)
InitFocus ==
    /\ InitWith({F11}, {Rec("assistant", "assistant", "tool_use", 1)}, {},
                BOOLEAN, {{}})
    /\ fs[F11].exists

NextFocus ==
    \/ StartPending(W1)
    \/ Ready /\ FocusLost
    \/ Ready /\ FocusGained
    \/ Ready /\ ProcessTimerFires
    \/ Ready /\ \E s \in ScanSlots : ScanPs(s)
    \/ Ready /\ \E s \in ScanSlots : ScanLsof(s, "p1")
    \/ Ready /\ ProcStart("p1", W1)
    \/ Ready /\ ProcExit("p1")
    \/ Ready /\ workspaces = {} /\ RefreshStart({W1})
    \/ Ready /\ LoadGetStatus(W1)
    \/ Ready /\ RefreshEnd
    \/ Ready /\ AccessDone(W1)
    \/ Ready /\ ReaddirIO(W1)
    \/ Ready /\ ReaddirResume(W1)
    \/ Ready /\ ReadIO(W1)
    \/ Ready /\ ReadResume(W1)
    \/ Ready /\ MonitoringTimerFires
    \/ Ready /\ MarkAsAcknowledged(W1)
    \/ Ready /\ AckTimerFires(W1)

SpecFocus == InitFocus /\ [][NextFocus]_vars

---------------------------------------------------------------------------
(* A task that finished some time ago: one workspace with two session    *)
(* files that receive assistant messages, with or without tool marker,      *)
(* once the workspace is listed; getStatus is called at every refresh.      *)
(* The clock shows 20 s at the activation, then 30 s, 20 min 30 s and       *)
(* 30 min 40 s: a message of 30 s is 20 minutes old at the third reading.   *)
FinishedInstants == {3, 123, 184}

InitFinished ==
    /\ InitWith({}, {}, {ProjectDir(W1)}, {TRUE}, {{}, {[pid |-> "p1", cwd |-> W1]}})
    /\ dirExists[ProjectDir(W1)]

NextFinished ==
    \/ \E f \in {F11, F12} : ChangeStart(f)
    \/ \E f \in {F11, F12} : ChangeResume(f)
    \/ \E f \in {F11, F12} : OnDidCreate(f)
    \/ LoadGetStatus(W1)
    \/ RefreshEnd
    \/ AccessDone(W1)
    \/ ReaddirIO(W1)
    \/ ReaddirResume(W1)
    \/ ReadIO(W1)
    \/ ReadResume(W1)
    \/ \E s \in ScanSlots : ScanPs(s)
    \/ \E s \in ScanSlots : \E pid \in Pids : ScanLsof(s, pid)
    \/ Quiescent /\ workspaces # {} /\ \E t \in FinishedInstants : Tick(t)
    \/ /\ Quiescent
       /\ workspaces # {}
       /\ \E f \in {F11, F12} : \E rec \in InferMenu(now) : AgentAppend(f, rec)
    \/ Quiescent /\ RefreshStart({W1})

SpecFinished == InitFinished /\ [][NextFinished]_vars

(* One updateAllStatuses batch over two workspaces.  Each has one session   *)
(* file, written before the first refresh (no watcher exists yet) at the    *)
(* instant of the activation; the file of W1 may end in a message without   *)
(* content.  The window stays focused, no agent process runs; the clock     *)
(* advances between the batches.                                            *)
BatchMenu(f, t) ==
    IF f = F11
    THEN {Rec("assistant", "assistant", None, t), Rec("assistant", "assistant", "text", t)}
    ELSE {Rec("assistant", "assistant", "text", t)}

InitBatch ==
    /\ InitWith({}, {}, Dirs, {TRUE}, {{}})
    /\ \A d \in Dirs : dirExists[d]

\* no updateStatus of a batch is still to start or in flight
BatchDone ==
    /\ pending = {}
    /\ \A w \in Workspaces : call[w].caller # "updateStatus"

NextBatch ==
    \/ \E w \in Workspaces : StartPending(w)
    \/ Ready /\ \E w \in Workspaces : LoadGetStatus(w)
    \/ Ready /\ RefreshEnd
    \/ Ready /\ \E w \in Workspaces : AccessDone(w)
    \/ Ready /\ \E w \in Workspaces : ReaddirIO(w)
    \/ Ready /\ \E w \in Workspaces : ReaddirResume(w)
    \/ Ready /\ \E w \in Workspaces : ReadIO(w)
    \/ Ready /\ \E w \in Workspaces : ReadResume(w)
    \/ Ready /\ \E s \in ScanSlots : ScanPs(s)
    \/ Ready /\ Quiescent /\ workspaces # {} /\ \E t \in Instants : Tick(t)
    \/ /\ Ready /\ Quiescent /\ workspaces = {}
       /\ \E f \in {F11, F21} : ~fs[f].exists
             /\ \E rec \in BatchMenu(f, now) : AgentAppend(f, rec)
    \/ Ready /\ Quiescent /\ workspaces = {} /\ RefreshStart(Workspaces)
    \/ Ready /\ Quiescent /\ MonitoringTimerFires

SpecBatch == InitBatch /\ [][NextBatch]_vars

(* The process table against the agent processes of the machine: two      *)
(* agent processes start and exit at any moment, one in the workspace's    *)
(* directory and one below it.  The window stays focused: rescans come     *)
(* from the activation and from the rescan timer.  The workspace has no    *)
(* session directory; getStatus is called by loadWorkspaces, at every      *)
(* refresh, and by the recompute that follows the activation's rescan.     *)
\* "/a/x", below the workspace "/a"
Below == <<"/", "a", "/", "x">>
\* where each process runs
CwdOf(pid) == IF pid = "p1" THEN W1 ELSE Below

InitProcs == InitWith({}, {}, {}, {TRUE}, {{}})

\* no getStatus call is in flight or about to be made
NoCall == call[W1].pc = "idle" /\ loading.windows = {} /\ pending = {}

NextProcs ==
    \/ StartPending(W1)
    \/ Ready /\ ProcessTimerFires
    \/ Ready /\ \E s \in ScanSlots : ScanPs(s)
    \/ Ready /\ \E s \in ScanSlots : \E pid \in Pids : ScanLsof(s, pid)
    \/ NoCall /\ \E pid \in Pids : ProcStart(pid, CwdOf(pid))
    \/ NoCall /\ \E pid \in Pids : ProcExit(pid)
    \/ Ready /\ RefreshStart({W1})
    \/ Ready /\ LoadGetStatus(W1)
    \/ Ready /\ RefreshEnd
    \/ Ready /\ AccessDone(W1)

SpecProcs == InitProcs /\ [][NextProcs]_vars

(* The running rule of the inference: one workspace whose session file     *)
(* holds an assistant text older than the activation, one agent process    *)
(* that starts and exits between getStatus calls, in the workspace's       *)
(* directory, in a directory below it or in a sibling directory whose      *)
(* name begins with the workspace's.  The window stays focused; getStatus  *)
(* is called by loadWorkspaces, at every refresh, and by the recompute     *)
(* that follows the activation's rescan.  The clock advances once, past    *)
(* the age where the file counts as active.                                *)
\* the sibling "/ab" of the workspace "/a"
Sibling == <<"/", "a", "b">>
CwdMenu == {W1, Below, Sibling}

InitRunning ==
    /\ InitWith({F11}, {Rec("assistant", "assistant", "text", 1)}, {}, {TRUE}, {{}})
    /\ fs[F11].exists

NextRunning ==
    \/ StartPending(W1)
    \/ Ready /\ ProcessTimerFires
    \/ Ready /\ \E s \in ScanSlots : ScanPs(s)
    \/ Ready /\ \E s \in ScanSlots : ScanLsof(s, "p1")
    \/ NoCall /\ \E cwd \in CwdMenu : ProcStart("p1", cwd)
    \/ NoCall /\ ProcExit("p1")
    \/ Ready /\ RefreshStart({W1})
    \/ Ready /\ LoadGetStatus(W1)
    \/ Ready /\ RefreshEnd
    \/ Ready /\ AccessDone(W1)
    \/ Ready /\ ReaddirIO(W1)
    \/ Ready /\ ReaddirResume(W1)
    \/ Ready /\ ReadIO(W1)
    \/ Ready /\ ReadResume(W1)
    \/ Ready /\ Quiescent /\ Tick(5)

SpecRunning == InitRunning /\ [][NextRunning]_vars

(* The watcher callbacks against the caches: one workspace with the       *)
(* session files F11 and F12; F11 may hold an assistant text older than    *)
(* the activation.  The agent appends, another window touches, the user    *)
(* deletes session files when the program is quiescent; getStatus is       *)
(* called by loadWorkspaces, at every refresh.  No agent process runs and  *)
(* the clock stands still.                                                 *)
WatchFiles == {F11, F12}
WatchMenu(t) == {Rec("assistant", "assistant", "text", t)}

InitWatch ==
    /\ InitWith({F11}, WatchMenu(1), {ProjectDir(W1)}, {TRUE}, {{}})
    /\ dirExists[ProjectDir(W1)]

NextWatch ==
    \/ \E f \in WatchFiles : ChangeStart(f)
    \/ \E f \in WatchFiles : ChangeResume(f)
    \/ \E f \in WatchFiles : OnDidCreate(f)
    \/ \E f \in WatchFiles : OnDidDelete(f)
    \/ LoadGetStatus(W1)
    \/ RefreshEnd
    \/ AccessDone(W1)
    \/ ReaddirIO(W1)
    \/ ReaddirResume(W1)
    \/ ReadIO(W1)
    \/ ReadResume(W1)
    \/ \E s \in ScanSlots : ScanPs(s)
    \/ /\ Quiescent /\ workspaces # {}
       /\ \E f \in WatchFiles : \E rec \in WatchMenu(now) : AgentAppend(f, rec)
    \/ Quiescent /\ workspaces # {} /\ \E f \in WatchFiles : TouchFile(f)
    \/ Quiescent /\ workspaces # {} /\ \E f \in WatchFiles : DeleteFile(f)
    \/ Quiescent /\ RefreshStart({W1})

SpecWatch == InitWatch /\ [][NextWatch]_vars

(* Timestamp touches of a session file by another window: one workspace    *)
(* with the session file F11, which may hold an assistant text older than  *)
(* the activation.  The agent appends assistant texts and another window   *)
(* touches the file when the program is quiescent, so that every event is  *)
(* handled before the next one is raised; getStatus is called by           *)
(* loadWorkspaces, at every refresh.  No agent process runs.               *)
PingInstants == {3, 5}

InitPing ==
    /\ InitWith({F11}, WatchMenu(1), {ProjectDir(W1)}, {TRUE}, {{}})
    /\ dirExists[ProjectDir(W1)]

NextPing ==
    \/ ChangeStart(F11)
    \/ ChangeResume(F11)
    \/ OnDidCreate(F11)
    \/ LoadGetStatus(W1)
    \/ RefreshEnd
    \/ AccessDone(W1)
    \/ ReaddirIO(W1)
    \/ ReaddirResume(W1)
    \/ ReadIO(W1)
    \/ ReadResume(W1)
    \/ \E s \in ScanSlots : ScanPs(s)
    \/ Quiescent /\ \E t \in PingInstants : Tick(t)
    \/ Quiescent /\ workspaces # {} /\ \E rec \in WatchMenu(now) : AgentAppend(F11, rec)
    \/ Quiescent /\ workspaces # {} /\ TouchFile(F11)
    \/ Quiescent /\ RefreshStart({W1})

SpecPing == InitPing /\ [][NextPing]_vars

(* The working directory of a session file: one workspace with the        *)
(* session file F11, which may hold, from before the activation, a summary *)
(* record (a line without cwd) or an assistant text.  The agent appends    *)
(* summary records and assistant texts, the user deletes the file and      *)
(* clearCache is called when the program is quiescent; getStatus is called *)
(* by loadWorkspaces, at every refresh.  No agent process runs and the     *)
(* clock stands still.                                                     *)
HeadMenu(t) == {Bare("summary", t), Rec("assistant", "assistant", "text", t)}

InitHead ==
    /\ InitWith({F11}, HeadMenu(1), {ProjectDir(W1)}, {TRUE}, {{}})
    /\ dirExists[ProjectDir(W1)]

NextHead ==
    \/ ChangeStart(F11)
    \/ ChangeResume(F11)
    \/ OnDidCreate(F11)
    \/ OnDidDelete(F11)
    \/ LoadGetStatus(W1)
    \/ RefreshEnd
    \/ AccessDone(W1)
    \/ ReaddirIO(W1)
    \/ ReaddirResume(W1)
    \/ ReadIO(W1)
    \/ ReadResume(W1)
    \/ \E s \in ScanSlots : ScanPs(s)
    \/ Quiescent /\ workspaces # {} /\ \E rec \in HeadMenu(now) : AgentAppend(F11, rec)
    \/ Quiescent /\ workspaces # {} /\ DeleteFile(F11)
    \/ Quiescent /\ workspaces # {} /\ ClearCache
    \/ Quiescent /\ RefreshStart({W1})

SpecHead == InitHead /\ [][NextHead]_vars

(* readConversationFile over the tails a session file can have: one       *)
(* workspace whose session file F11 holds, from before the activation, any *)
(* sequence of at most MaxTail lines: messages of the instants 1 to 3, a   *)
(* message without timestamp, records of the types summary and             *)
(* file-history-snapshot, lines that are not JSON.  The activation is at   *)
(* instant 5 and the file was last written at 4.  getStatus is called by   *)
(* loadWorkspaces and reads the file.                                      *)
TailMenu ==
    { Rec("assistant", "assistant", "text", 1),
      Rec("assistant", "assistant", "text", 2),
      Rec("user", "user", "tool_use", 2),
      Rec("assistant", "assistant", "text", 3),
      Rec("assistant", "assistant", "text", 0),
      Rec("summary", "assistant", "text", 3),
      Rec("file-history-snapshot", "assistant", "text", 3),
      Malformed }

RECURSIVE Tails(_)
\* the sequences of at most n lines
Tails(n) ==
    IF n = 0 THEN {<<>>}
    ELSE LET shorter == Tails(n - 1)
         IN  shorter \cup {Append(l, r) : l \in shorter, r \in TailMenu}

InitRead ==
    /\ now = 5
    /\ \E l \in Tails(MaxTail) :
          fs = [f \in FilePaths |->
                  IF f = F11 THEN [exists |-> TRUE, lines |-> l, mtime |-> 4]
                  ELSE NoFile]
    /\ dirExists = [d \in Dirs |-> d = ProjectDir(W1)]
    /\ InitProgram({TRUE}, {{}})
    /\ resolved = NoResolved

NextRead ==
    \/ RefreshStart({W1})
    \/ LoadGetStatus(W1)
    \/ RefreshEnd
    \/ AccessDone(W1)
    \/ ReaddirIO(W1)
    \/ ReaddirResume(W1)
    \/ ReadIO(W1)
    \/ ReadResume(W1)
    \/ \E s \in ScanSlots : ScanPs(s)

SpecRead == InitRead /\ [][NextRead]_vars

(* Two workspaces side by side.  The session file F11 of W1 is appended  *)
(* to by the agent, touched by another window and deleted by the user      *)
(* when the program is quiescent; the session file F21 of W2 holds an      *)
(* assistant text older than the activation and stays as it is.  The user  *)
(* clicks either workspace.  getStatus is called by loadWorkspaces at the  *)
(* first refresh, afterwards by the monitoring timer and the timers of the *)
(* clicks.  The window stays focused, no agent process runs and the clock  *)
(* stands still.                                                           *)
InitKeys ==
    /\ InitWith({F21}, WatchMenu(1), Dirs, {TRUE}, {{}})
    /\ fs[F21].exists
    /\ \A d \in Dirs : dirExists[d]

NextKeys ==
    \/ \E w \in Workspaces : StartPending(w)
    \/ Ready /\ ChangeStart(F11)
    \/ Ready /\ ChangeResume(F11)
    \/ Ready /\ OnDidCreate(F11)
    \/ Ready /\ OnDidDelete(F11)
    \/ Ready /\ \E w \in Workspaces : LoadGetStatus(w)
    \/ Ready /\ RefreshEnd
    \/ Ready /\ \E w \in Workspaces : AccessDone(w)
    \/ Ready /\ \E w \in Workspaces : ReaddirIO(w)
    \/ Ready /\ \E w \in Workspaces : ReaddirResume(w)
    \/ Ready /\ \E w \in Workspaces : ReadIO(w)
    \/ Ready /\ \E w \in Workspaces : ReadResume(w)
    \/ Ready /\ \E s \in ScanSlots : ScanPs(s)
    \/ Ready /\ \E w \in Workspaces : AckTimerFires(w)
    \/ /\ Ready /\ Quiescent /\ workspaces # {}
       /\ \E rec \in WatchMenu(now) : AgentAppend(F11, rec)
    \/ Ready /\ Quiescent /\ workspaces # {} /\ TouchFile(F11)
    \/ Ready /\ Quiescent /\ workspaces # {} /\ DeleteFile(F11)
    \/ Ready /\ Quiescent /\ workspaces = {} /\ RefreshStart(Workspaces)
    \/ Ready /\ Quiescent /\ MonitoringTimerFires
    \/ Ready /\ Quiescent /\ \E w \in Workspaces : MarkAsAcknowledged(w)

SpecKeys == InitKeys /\ [][NextKeys]_vars

(* The first session files of a workspace: W1 has no session file at the   *)
(* activation, and its log directory is empty or does not exist.  Once    *)
(* the workspace is listed and watched the agent creates and appends to    *)
(* F11 and F12 when the program is quiescent, so that every event is       *)
(* delivered before the next getStatus, which loadWorkspaces calls at      *)
(* every refresh.  No agent process runs and the clock stands still.       *)
InitCreate == InitWith({}, {}, {ProjectDir(W1)}, {TRUE}, {{}})

NextCreate ==
    \/ \E f \in WatchFiles : ChangeStart(f)
    \/ \E f \in WatchFiles : ChangeResume(f)
    \/ \E f \in WatchFiles : OnDidCreate(f)
    \/ LoadGetStatus(W1)
    \/ RefreshEnd
    \/ AccessDone(W1)
    \/ ReaddirIO(W1)
    \/ ReaddirResume(W1)
    \/ ReadIO(W1)
    \/ ReadResume(W1)
    \/ \E s \in ScanSlots : ScanPs(s)
    \/ /\ Quiescent /\ workspaces # {}
       /\ \E f \in WatchFiles : \E rec \in WatchMenu(now) : AgentAppend(f, rec)
    \/ Quiescent /\ RefreshStart({W1})

SpecCreate == InitCreate /\ [][NextCreate]_vars

(* A day passes: one workspace with the session files F11 and F12; F11    *)
(* may hold an assistant text older than the activation.  The clock shows  *)
(* 20 s at the activation, then 30 s, 24 h 20 s and 24 h 50 s: a file of   *)
(* 10 s is more than 24 hours old at the third reading.  The agent appends *)
(* and another window touches session files when the program is           *)
(* quiescent; getStatus is called by loadWorkspaces, at every refresh.     *)
(* No agent process runs.                                                  *)
DayInstants == {3, 8642, 8645}

InitDay ==
    /\ InitWith({F11}, WatchMenu(1), {ProjectDir(W1)}, {TRUE}, {{}})
    /\ dirExists[ProjectDir(W1)]

NextDay ==
    \/ \E f \in WatchFiles : ChangeStart(f)
    \/ \E f \in WatchFiles : ChangeResume(f)
    \/ \E f \in WatchFiles : OnDidCreate(f)
    \/ LoadGetStatus(W1)
    \/ RefreshEnd
    \/ AccessDone(W1)
    \/ ReaddirIO(W1)
    \/ ReaddirResume(W1)
    \/ ReadIO(W1)
    \/ ReadResume(W1)
    \/ \E s \in ScanSlots : ScanPs(s)
    \/ /\ Quiescent /\ workspaces # {}
       /\ \E f \in WatchFiles : \E rec \in WatchMenu(now) : AgentAppend(f, rec)
    \/ Quiescent /\ workspaces # {} /\ \E f \in WatchFiles : TouchFile(f)
    \/ Quiescent /\ \E t \in DayInstants : Tick(t)
    \/ Quiescent /\ RefreshStart({W1})

SpecDay == InitDay /\ [][NextDay]_vars

(* A conversation of prompts and answers: one workspace with the session  *)
(* files F11 and F12, which receive user prompts and assistant texts once  *)
(* the workspace is listed, when the program is quiescent; getStatus is    *)
(* called by loadWorkspaces, at every refresh.  The clock shows 20 s at    *)
(* the activation, then 30 s, 50 s and 5 min 20 s.  No agent process runs. *)
TalkInstants == {3, 5, 32}
TalkMenu(t) == {Rec("user", "user", "text", t), Rec("assistant", "assistant", "text", t)}

InitTalk ==
    /\ InitWith({}, {}, {ProjectDir(W1)}, {TRUE}, {{}})
    /\ dirExists[ProjectDir(W1)]

NextTalk ==
    \/ \E f \in WatchFiles : ChangeStart(f)
    \/ \E f \in WatchFiles : ChangeResume(f)
    \/ \E f \in WatchFiles : OnDidCreate(f)
    \/ LoadGetStatus(W1)
    \/ RefreshEnd
    \/ AccessDone(W1)
    \/ ReaddirIO(W1)
    \/ ReaddirResume(W1)
    \/ ReadIO(W1)
    \/ ReadResume(W1)
    \/ \E s \in ScanSlots : ScanPs(s)
    \/ /\ Quiescent /\ workspaces # {}
       /\ \E f \in WatchFiles : \E rec \in TalkMenu(now) : AgentAppend(f, rec)
    \/ Quiescent /\ workspaces # {} /\ \E t \in TalkInstants : Tick(t)
    \/ Quiescent /\ RefreshStart({W1})

SpecTalk == InitTalk /\ [][NextTalk]_vars

(* The end of the extension: the window gains and loses focus, an agent    *)
(* process starts and exits, the rescan timers fire, and at any moment     *)
(* the provider is disposed of; the focus listener is disposed of with it, *)
(* the scans in flight go on.  No workspace is listed.                     *)
InitDispose == InitWith({}, {}, {}, BOOLEAN, {{}})

NextDispose ==
    \/ ~disposed /\ FocusLost
    \/ ~disposed /\ FocusGained
    \/ ProcessTimerFires
    \/ \E s \in ScanSlots : ScanPs(s)
    \/ \E s \in ScanSlots : ScanLsof(s, "p1")
    \/ ProcStart("p1", W1)
    \/ ProcExit("p1")
    \/ Dispose

SpecDispose == InitDispose /\ [][NextDispose]_vars

(* Refreshes that overlap: the list of open windows holds W1, W2 or both,  *)
(* and refresh() is called again while a loadWorkspaces run is in flight.  *)
(* F11 may hold an assistant text older than the activation.  No agent     *)
(* process runs and the clock stands still.                                *)
WindowLists == SUBSET Workspaces \ {{}}

InitRefresh ==
    /\ InitWith({F11}, WatchMenu(1), Dirs, {TRUE}, {{}})
    /\ \A d \in Dirs : dirExists[d]

NextRefresh ==
    \/ \E windows \in WindowLists : RefreshStart(windows)
    \/ \E windows \in WindowLists : OverlapStart(windows)
    \/ \E w \in Workspaces : LoadGetStatus(w)
    \/ \E w \in Workspaces : OverlapGetStatus(w)
    \/ RefreshEnd
    \/ OverlapEnd
    \/ \E w \in Workspaces : AccessDone(w)
    \/ \E w \in Workspaces : ReaddirIO(w)
    \/ \E w \in Workspaces : ReaddirResume(w)
    \/ \E w \in Workspaces : ReadIO(w)
    \/ \E w \in Workspaces : ReadResume(w)
    \/ \E s \in ScanSlots : ScanPs(s)

SpecRefresh == InitRefresh /\ [][NextRefresh]_vars

(* Change events during a getStatus call: one workspace with the session  *)
(* file F11, which may hold an assistant text older than the activation.   *)
(* Once the workspace is listed and watched the agent appends at any       *)
(* moment, so that every change of the file raises an event; getStatus is  *)
(* called by loadWorkspaces, at any refresh.  No agent process runs and    *)
(* the clock stands still.                                                 *)
InitStale ==
    /\ InitWith({F11}, WatchMenu(1), {ProjectDir(W1)}, {TRUE}, {{}})
    /\ dirExists[ProjectDir(W1)]

NextStale ==
    \/ ChangeStart(F11)
    \/ ChangeResume(F11)
    \/ OnDidCreate(F11)
    \/ LoadGetStatus(W1)
    \/ RefreshEnd
    \/ AccessDone(W1)
    \/ ReaddirIO(W1)
    \/ ReaddirResume(W1)
    \/ ReadIO(W1)
    \/ ReadResume(W1)
    \/ \E s \in ScanSlots : ScanPs(s)
    \/ workspaces # {} /\ \E rec \in WatchMenu(now) : AgentAppend(F11, rec)
    \/ RefreshStart({W1})

SpecStale == InitStale /\ [][NextStale]_vars

(* The periodic recompute while the window stays focused.  One workspace   *)
(* with one session file and a process that may run in it; the agent       *)
(* appends until 30 s after the activation, then falls silent.  The clock  *)
(* shows 20 s at the activation, then 30 s, 1 min, 5 min 30 s and          *)
(* 30 min 40 s: every message is older than each window at a later         *)
(* reading.                                                                *)
LiveInstants == {3, 6, 33, 184}

\* the last instant at which the agent writes
LastAppend == 3

\* what the agent appends here: a text, a tool call, a message without content
LiveMenu(t) == InferMenu(t) \cup ThrowMenu(t)

InitLive ==
    /\ InitWith({}, {}, {ProjectDir(W1)}, {TRUE}, {{}, {[pid |-> "p1", cwd |-> W1]}})
    /\ dirExists[ProjectDir(W1)]

\* the activation's loadWorkspaces
LiveRefresh ==
    \/ workspaces = {} /\ loading.windows = {} /\ RefreshStart({W1})
    \/ LoadGetStatus(W1)
    \/ RefreshEnd

\* the setInterval callback of startMonitoring, between two runs of the
\* event loop
LiveTimer == Quiescent /\ Ready /\ MonitoringTimerFires

\* the calls of the running callback and the continuations of getStatus
LiveCalls ==
    \/ StartPending(W1)
    \/ AccessDone(W1)
    \/ ReaddirIO(W1)
    \/ ReaddirResume(W1)
    \/ ReadIO(W1)
    \/ ReadResume(W1)

\* the watcher callbacks of the session file
LiveWatcher ==
    \/ ChangeStart(F11)
    \/ ChangeResume(F11)
    \/ OnDidCreate(F11)

\* the process scan of the activation
LiveScan ==
    \/ \E s \in ScanSlots : ScanPs(s)
    \/ \E s \in ScanSlots : \E pid \in Pids : ScanLsof(s, pid)

\* the clock advances by one reading, between two runs of the event loop
LiveClock == Quiescent /\ Ready /\ \E t \in LiveInstants : Tick(t)

\* the agent writes one record at a reading of the clock, once the
\* workspace is listed and nothing is in flight
LiveAgent ==
    /\ Quiescent /\ Ready
    /\ workspaces # {}
    /\ now <= LastAppend
    /\ fs[F11].exists => fs[F11].mtime < now
    /\ \E rec \in LiveMenu(now) : AgentAppend(F11, rec)

NextLive ==
    \/ LiveRefresh
    \/ LiveTimer
    \/ LiveCalls
    \/ LiveWatcher
    \/ LiveScan
    \/ LiveClock
    \/ LiveAgent

SpecLive == InitLive /\ [][NextLive]_vars

\* Time passes, and the event loop runs every callback that is due: the
\* setInterval callback of startMonitoring every 5 s, the continuations of
\* the awaited file and process reads, the watcher callbacks.  The agent is
\* under no obligation to write.
SpecLiveFair ==
    /\ SpecLive
    /\ SF_vars(LiveClock)
    /\ WF_vars(LiveRefresh)
    /\ WF_vars(LiveTimer)
    /\ WF_vars(LiveCalls)
    /\ WF_vars(LiveWatcher)
    /\ WF_vars(LiveScan)

(* The mapping from workspace path to log directory, on its own.  Two      *)
(* workspace paths are drawn among the normalised absolute paths of at     *)
(* most MaxPath characters over the separator, the substitution character  *)
(* and two letters; getStatus and watchWorkspace resolve the directory of  *)
(* each.                                                                   *)
PathChars == {"/", "-", "a", "b"}
MaxPath == 4

\* absolute paths without empty segment and without trailing separator
Normalised(p) ==
    /\ Len(p) >= 2
    /\ p[1] = "/"
    /\ p[Len(p)] # "/"
    /\ \A i \in 1..(Len(p) - 1) : ~(p[i] = "/" /\ p[i + 1] = "/")

WorkspacePaths ==
    {p \in UNION {[1..n -> PathChars] : n \in 2..MaxPath} : Normalised(p)}

InitEncode ==
    /\ now = 2
    /\ fs = [f \in FilePaths |-> NoFile]
    /\ dirExists = [d \in Dirs |-> FALSE]
    /\ InitProgram({TRUE}, {{}})
    /\ \E p \in WorkspacePaths : \E q \in WorkspacePaths \ {p} :
          resolved = [asked |-> {p, q}, dirs |-> {}]

NextEncode == \E p \in WorkspacePaths : ResolveProjectDir(p)

SpecEncode == InitEncode /\ [][NextEncode]_vars

---------------------------------------------------------------------------
(* Properties.  ret is the last return of getStatus: ret.info was computed *)
(* at instant ret.t from the summaries ret.convs, with monitoring-start    *)
(* time ret.startup.                                                       *)

Returned == ret.w # <<>>

\* C1: once a change event of session file F has been handled by the
\* watcher, the next getStatus of the workspace is computed from a summary
\* of F that is not older than the one a re-read of F gave at that moment.
\* ret.after holds, for the getStatus call that returned last, the change
\* events handled between the start of the call before it and its own
\* start, each with the lastModified of F at its invalidation.
C1_CoherentAfterChange ==
    Returned =>
        \A e \in ret.after :
            \A i \in 1..Len(ret.convs) :
                ret.convs[i].path = e[1] => ret.convs[i].lastModified >= e[2]

\* the summaries of ret.convs that no other summary is more recent than
MostRecent(convs) ==
    {i \in 1..Len(convs) :
        \A j \in 1..Len(convs) : convs[j].lastModified <= convs[i].lastModified}

\* C2: a StatusInfo returned by getStatus has status NoSession iff its
\* conversationCount is 0, and zero summaries yield exactly
\* {status: NoSession, conversationCount: 0} with no lastMessageTime
C2_NoSessionIffNoConversations ==
    Returned =>
        /\ ret.info # Undefined =>
              (ret.info.status = "NoSession" <=> ret.info.conversationCount = 0)
        /\ Len(ret.convs) = 0 => ret.info = StatusInfo("NoSession", 0, 0)

\* getStatus has returned NoSession for a directory that exists and is empty
C2_Witness ==
    /\ Returned
    /\ ret.info = StatusInfo("NoSession", 0, 0)
    /\ dirExists[ProjectDir(ret.w)]
    /\ projectDirExistsCache[ProjectDir(ret.w)] = "true"

\* the waiting heuristic and the executing heuristic, as the claim words them
WaitingHeuristic(c, t) ==
    /\ c.lastMessage.present
    /\ c.lastMessage.role = "assistant"
    /\ c.lastMessage.content = "tool_use"
    /\ t - c.lastModified < FIVE_MINUTES
    /\ t - c.lastModified >= WAITING_MESSAGE_AGE

ExecutingHeuristic(c, t) == t - c.lastModified < EXECUTING_THRESHOLD

BothHeuristics ==
    \E i \in 1..Len(ret.convs) :
        WaitingHeuristic(ret.convs[i], ret.t) /\ ExecutingHeuristic(ret.convs[i], ret.t)

\* C3: when a summary satisfies both the waiting and the executing
\* heuristic, getStatus returns WaitingForInput and not Executing
C3_WaitingBeforeExecuting ==
    Returned /\ BothHeuristics => ret.info.status = "WaitingForInput"

\* getStatus has returned for a summary that satisfies both heuristics
C3_Witness == Returned /\ BothHeuristics /\ ret.info.status = "WaitingForInput"

\* C10: getStatus returns RecentlyFinished only if the most recently
\* modified summary has a last message, is at most 30 minutes old, has no
\* tool marker in its last message and is not older than the workspace's
\* monitoring-start time; the first getStatus of a workspace never returns
\* RecentlyFinished for history that predates it
C10_RecentlyFinishedOnlyIf ==
    Returned /\ ret.info.status = "RecentlyFinished" =>
        /\ \E i \in MostRecent(ret.convs) :
              LET c == ret.convs[i]
              IN  /\ c.lastMessage.present
                  /\ ret.t - c.lastModified <= THIRTY_MINUTES
                  /\ c.lastMessage.content # "tool_use"
                  /\ c.lastModified >= ret.startup
                  /\ ret.info.lastMessageTime = c.lastModified
        /\ ret.first =>
              \E i \in 1..Len(ret.convs) : ret.convs[i].lastModified >= ret.t

\* getStatus has returned RecentlyFinished for the newer of two summaries,
\* the older of which was written before the monitoring started
C10_Witness ==
    /\ Returned
    /\ ret.info.status = "RecentlyFinished"
    /\ Len(ret.convs) = 2
    /\ ret.convs[2].lastModified < ret.startup
    /\ ret.convs[1].lastModified >= ret.startup

(* upd is the last completion of updateStatus: getStatus returned upd.info  *)
(* at instant upd.t, computed from summaries the newest of which is of      *)
(* upd.maxLm; the status cache held upd.old before and holds upd.new after, *)
(* the acknowledged timestamp was upd.ackBefore and is upd.ackAfter, and    *)
(* upd.display is the status displayed after it.  lastAck is the last       *)
(* acknowledgement: of status lastAck.status with timestamp lastAck.t.      *)

Timestamped == {"RecentlyFinished", "Executing", "WaitingForInput"}

\* a RecentlyFinished status has been acknowledged
AckedRecentlyFinished == lastAck.w # <<>> /\ lastAck.status = "RecentlyFinished"

\* and the status has since been recomputed, with that acknowledgement in
\* place, from summaries one of which is newer than the acknowledged timestamp
RecomputedWithNewer ==
    /\ AckedRecentlyFinished
    /\ upd.w = lastAck.w
    /\ upd.ackBefore = lastAck.t
    /\ upd.maxLm > lastAck.t
    /\ upd.info # Undefined

\* C4 as stated: an acknowledged RecentlyFinished is displayed as Running,
\* and after a newer summary and a recompute the displayed status is
\* RecentlyFinished or a status of higher precedence
C4_AsStated ==
    /\ AckedRecentlyFinished => lastAck.display = "Running"
    /\ RecomputedWithNewer => upd.display \in Timestamped

\* C4: an acknowledged RecentlyFinished is displayed as Running for as
\* long as the status cache and the acknowledgement stay; after a newer
\* summary and a recompute the displayed status is the computed status: a
\* RecentlyFinished, Executing or WaitingForInput whose timestamp is newer
\* than the acknowledged one, the acknowledgement being cleared, or
\* Running or NotRunning when the newest summary is 5 minutes old or more
C4_SuppressedUntilNewer ==
    /\ AckedRecentlyFinished => lastAck.display = "Running"
    /\ AckedRecentlyFinished
         /\ statusCache[lastAck.w] =
              [statusCache[lastAck.w] EXCEPT !.status = "RecentlyFinished",
                                             !.lastMessageTime = lastAck.t]
         /\ acknowledgedTimestamps[lastAck.w] = lastAck.t
         => Display(lastAck.w) = "Running"
    /\ RecomputedWithNewer =>
         /\ upd.display = upd.info.status
         /\ IF upd.info.status \in Timestamped
            THEN upd.info.lastMessageTime > lastAck.t /\ upd.ackAfter = 0
            ELSE /\ upd.info.status \in {"Running", "NotRunning"}
                 /\ upd.t - upd.maxLm >= FIVE_MINUTES

\* a RecentlyFinished was acknowledged and, after a newer message, the
\* recompute displays RecentlyFinished again
C4_Witness ==
    /\ RecomputedWithNewer
    /\ upd.display = "RecentlyFinished"
    /\ upd.ackAfter = 0

\* C5: the displayed status differs from the computed status only when the
\* computed status is RecentlyFinished or Executing, the workspace has an
\* acknowledged timestamp and the computed timestamp is not newer than it;
\* the displayed status is then Running
C5_DisplayAlteredOnlyByAck ==
    \A w \in Workspaces :
        computed[w] # <<>> /\ Display(w) # computed[w][1].status =>
            /\ computed[w][1].status \in {"RecentlyFinished", "Executing"}
            /\ Truthy(acknowledgedTimestamps[w])
            /\ computed[w][1].lastMessageTime <= acknowledgedTimestamps[w]
            /\ Display(w) = "Running"

\* an acknowledged Executing is displayed as Running
C5_Witness ==
    /\ computed[W1] # <<>>
    /\ computed[W1][1].status = "Executing"
    /\ Display(W1) = "Running"

\* C6: updateStatus reports a change only if the status or the timestamp
\* differs from the result of the previous computation for the workspace
C6_ChangedOnlyIfDiffers ==
    upd.w # <<>> /\ upd.prev # <<>> /\ upd.changed =>
        \/ upd.prev[1].status # upd.info.status
        \/ upd.prev[1].lastMessageTime # upd.info.lastMessageTime

\* C7: when getStatus returns undefined the status cache entry keeps its
\* value
C7_UndefinedKeepsStatus ==
    upd.w # <<>> /\ upd.info = Undefined => upd.new = upd.old

\* C8: while the window stays unfocused no entry of the process table is
\* added or removed and no run of updateClaudeProcessCache starts
C8_FrozenWhileUnfocused ==
    [][~isWindowFocused /\ ~isWindowFocused' =>
          /\ claudeProcessCache' = claudeProcessCache
          /\ \A s \in ScanSlots : scan[s].pc = "idle" => scan'[s].pc = "idle"]_vars

\* C9: every updateStatus starts while the window is focused.  focused is
\* the focus flag at the moment updateStatus called getStatus.
C9_RecomputeOnlyWhileFocused ==
    /\ upd.w # <<>> => upd.focused
    /\ \A w \in Workspaces : call[w].caller = "updateStatus" => call[w].focused

(* Scenarios of the status inference *)

\* the workspace has one summary, whose last message is an assistant
\* message with the tool marker, and no live process is seen
OneToolCall ==
    /\ Returned
    /\ Len(ret.convs) = 1
    /\ ret.convs[1].lastMessage.present
    /\ ret.convs[1].lastMessage.role = "assistant"
    /\ ret.convs[1].lastMessage.content = "tool_use"
    /\ ~ret.running

\* the age of the only summary at the return of getStatus
OnlyAge == ret.t - ret.convs[1].lastModified

SecondCall ==
    /\ ret' # ret
    /\ Returned
    /\ ret'.w = ret.w
    /\ ret'.hit
    /\ ret'.running = ret.running

\* C12 as stated: two consecutive getStatus calls of a workspace with no
\* file event, process-table change or acknowledgement between them return
\* the same StatusInfo
C12_AsStated == [][SecondCall => ret'.info = ret.info]_vars

\* C12: two consecutive getStatus calls of a workspace with no file event,
\* process-table change or acknowledgement between them, made at the same
\* reading of the clock, return the same StatusInfo, also when the first
\* of the two is the first call for the workspace
C12_SameInstantSameStatus ==
    [][SecondCall /\ ret'.t = ret.t => ret'.info = ret.info]_vars

\* a call has returned Executing from the cached list
\* at the instant of the first call for the workspace
C12_Witness ==
    /\ Returned
    /\ ret.hit
    /\ ~ret.first
    /\ ret.t = ret.startup
    /\ ret.info.status = "Executing"

(* Failures *)

\* C13: getStatus returns a defined StatusInfo whatever the session-log
\* directory holds (no directory, a file that cannot be read, a malformed
\* line, a message without role or without content)
C13_NeverUndefined == Returned => ret.info # Undefined

\* C14: when the computation of one workspace of a batch fails (getStatus
\* returns undefined), every other workspace of the batch has its status
\* computed in that batch and cached
C14_FailureIsolated ==
    BatchDone =>
        \A w \in workspaces : \A v \in workspaces :
            computed[w] # <<>> /\ computed[w][1] = Undefined =>
                /\ computed[v] # <<>>
                /\ computed[v][2] = computed[w][2]
                /\ statusCache[v].status = computed[v][1].status
                /\ statusCache[v].lastMessageTime = computed[v][1].lastMessageTime

\* a batch is over in which the computation of W1 failed and W2 was found
\* RecentlyFinished, which the status cache holds
C14_Witness ==
    /\ BatchDone
    /\ computed[W1] # <<>> /\ computed[W1][1] = Undefined
    /\ computed[W2] # <<>> /\ computed[W2][1].status = "RecentlyFinished"
    /\ computed[W2][2] = computed[W1][2]
    /\ statusCache[W2].status = "RecentlyFinished"

(* The rules of the inference, one by one *)

SomeWaiting == \E i \in 1..Len(ret.convs) : WaitingHeuristic(ret.convs[i], ret.t)

SomeExecuting == \E i \in 1..Len(ret.convs) : ExecutingHeuristic(ret.convs[i], ret.t)

\* C15: for a workspace with at least one summary getStatus returns
\* WaitingForInput iff some summary was modified less than 5 minutes ago,
\* ends in an assistant message with the tool marker and is at least 10 s
\* old
C15_WaitingIff ==
    Returned /\ Len(ret.convs) >= 1 =>
        (ret.info.status = "WaitingForInput" <=> SomeWaiting)

\* getStatus has returned WaitingForInput for the older of two summaries,
\* the newer of which does not satisfy the waiting rule
C15_Witness ==
    /\ Returned
    /\ Len(ret.convs) = 2
    /\ ret.info.status = "WaitingForInput"
    /\ ~WaitingHeuristic(ret.convs[1], ret.t)
    /\ WaitingHeuristic(ret.convs[2], ret.t)
    /\ ret.info.lastMessageTime = ret.convs[2].lastModified

\* C16: for a workspace with at least one summary, none of which satisfies
\* the waiting rule, getStatus returns Executing iff some summary was
\* modified less than 30 s ago
C16_ExecutingIff ==
    Returned /\ Len(ret.convs) >= 1 /\ ~SomeWaiting =>
        (ret.info.status = "Executing" <=> SomeExecuting)

\* getStatus has returned Executing for a summary modified 10 s ago whose
\* last message has no tool marker
C16_Witness ==
    /\ Returned
    /\ Len(ret.convs) = 1
    /\ ret.t - ret.convs[1].lastModified = 1
    /\ ret.convs[1].lastMessage.content = "text"
    /\ ret.info = StatusInfo("Executing", ret.convs[1].lastModified, 1)

\* the summary getStatus ranks first: the most recently modified one
Newest == ret.convs[1]

\* C17: when the most recently modified summary of a workspace is 20
\* minutes old, ends in an assistant message that has a content without the
\* tool marker, and the monitoring of the workspace started before its
\* timestamp, getStatus returns RecentlyFinished with that timestamp
C17_FinishedTwentyMinutesAgo ==
    /\ Returned
    /\ Len(ret.convs) >= 1
    /\ ret.t - Newest.lastModified = 4 * FIVE_MINUTES
    /\ Newest.lastMessage.present
    /\ Newest.lastMessage.role = "assistant"
    /\ Newest.lastMessage.content = "text"
    /\ ret.startup < Newest.lastModified
    => ret.info = StatusInfo("RecentlyFinished", Newest.lastModified, Len(ret.convs))

\* getStatus has returned RecentlyFinished for a workspace with two
\* summaries, the newer of which is 20 minutes old, while an agent process
\* is seen
C17_Witness ==
    /\ Returned
    /\ Len(ret.convs) = 2
    /\ ret.t - Newest.lastModified = 4 * FIVE_MINUTES
    /\ Newest.lastMessage.content = "text"
    /\ ret.startup < Newest.lastModified
    /\ ret.running
    /\ ret.info.status = "RecentlyFinished"

(* The process table.  ret.table is the table the getStatus call that      *)
(* returned last read when it was called.  lastScan is the last completion *)
(* of a rescan: its listing held the pids lastScan.listed and its last     *)
(* step removed the pids lastScan.evicted from the table.                  *)

\* the recently-finished rule applies to the returned summaries
SomeFinished ==
    \E i \in MostRecent(ret.convs) :
        LET c == ret.convs[i]
        IN  /\ c.lastMessage.present
            /\ ret.t - c.lastModified <= THIRTY_MINUTES
            /\ c.lastMessage.content # "tool_use"
            /\ c.lastModified >= ret.startup

\* directory cwd is the workspace key or lies below it in the file tree
AtOrBelow(cwd, key) ==
    \/ cwd = key
    \/ /\ Len(cwd) > Len(key)
       /\ \A i \in 1..Len(key) : cwd[i] = key[i]
       /\ cwd[Len(key) + 1] = "/"

\* none of NoSession, WaitingForInput, Executing, RecentlyFinished applies
\* to what getStatus returned last
NoRuleApplies ==
    /\ Returned
    /\ Len(ret.convs) >= 1
    /\ ~SomeWaiting
    /\ ~SomeExecuting
    /\ ~SomeFinished

\* C18: when none of NoSession, WaitingForInput, Executing,
\* RecentlyFinished applies, getStatus returns Running exactly when some
\* entry of the process table has a working directory equal to the
\* workspace key or below it (a sibling that shares only a string prefix
\* does not count), and NotRunning otherwise
C18_RunningByTable ==
    NoRuleApplies =>
        ret.info.status = IF \E e \in ret.table : AtOrBelow(e.cwd, ret.w)
                          THEN "Running" ELSE "NotRunning"

\* getStatus has returned NotRunning, no other rule applying, while the
\* table held a process of the sibling directory "/ab"
C18_Witness ==
    /\ NoRuleApplies
    /\ \E e \in ret.table : e.cwd = Sibling
    /\ ret.info.status = "NotRunning"

\* a run of updateClaudeProcessCache completes in this step
ScanCompletes == \E s \in ScanSlots : scan[s].pc # "idle" /\ scan'[s].pc = "idle"

\* C19: when a rescan completes, the process table holds no pid that was
\* absent from that rescan's listing (an empty listing empties the table),
\* so no workspace is reported running for a process the listing lacked
C19_EvictsUnlisted ==
    [][ScanCompletes =>
          /\ \A e \in claudeProcessCache' : e.pid \in lastScan'.listed
          /\ lastScan'.listed = {} => claudeProcessCache' = {}
          /\ \A w \in Workspaces :
                IsClaudeProcessRunning(w)' =>
                    \E e \in claudeProcessCache' : e.pid \in lastScan'.listed]_vars

\* a rescan whose listing held one process has completed and has removed
\* the other process, which had exited, from the table; the table is as the
\* rescan left it
C19_Witness ==
    /\ lastScan.done
    /\ lastScan.listed = {"p1"}
    /\ lastScan.evicted = {"p2"}
    /\ osProcs = {[pid |-> "p1", cwd |-> W1]}
    /\ claudeProcessCache = {[pid |-> "p1", cwd |-> W1]}

\* C20: a process whose working directory cannot be resolved (it vanished
\* between the listing and the lsof, or lsof yields nothing) is not added
\* to the process table: the table holds no entry whose working directory
\* is what an empty lsof output normalizes to
C20_UnresolvedNotAdded ==
    \A e \in claudeProcessCache : e.cwd # <<".">>

(* The watcher callbacks.  An event of kind k for file f is delivered in   *)
(* the step that takes <<k, f>> out of events; the onDidChange callback of *)
(* f completes in the step that takes f out of changing.                   *)

CreateDelivered(f) == <<"create", f>> \in events /\ <<"create", f>> \notin events'
DeleteDelivered(f) == <<"delete", f>> \in events /\ <<"delete", f>> \notin events'
ChangeHandled(f) == f \in changing /\ f \notin changing'

\* the file summaries of the files other than f stay as they are
OtherSummariesKept(f) ==
    \A g \in FilePaths \ {f} : conversationFileCache'[g] = conversationFileCache[g]

\* C21: a create event in a workspace's log directory evicts the
\* directory's listing and the workspace's conversation list; a delete event
\* evicts these and the summary of the deleted file.  Neither changes the
\* summaries of other files, the working-directory cache or the process table
C21_CreateDeleteEvictions ==
    [][\A f \in FilePaths :
          /\ CreateDelivered(f) =>
                /\ projectFilesCache'[f[1]] = <<>>
                /\ conversationCache'[OwnerOf(f[1])] = <<>>
                /\ conversationFileCache' = conversationFileCache
                /\ workingDirectoryCache' = workingDirectoryCache
                /\ claudeProcessCache' = claudeProcessCache
          /\ DeleteDelivered(f) =>
                /\ projectFilesCache'[f[1]] = <<>>
                /\ conversationCache'[OwnerOf(f[1])] = <<>>
                /\ conversationFileCache'[f] = <<>>
                /\ OtherSummariesKept(f)
                /\ workingDirectoryCache' = workingDirectoryCache
                /\ claudeProcessCache' = claudeProcessCache]_vars

\* the delete event of F11 has been delivered: F11 is gone and so are its
\* summary, the listing and the conversation list, while the summary of
\* F12 and the working directories of both files are still cached
C21_Witness ==
    /\ ~fs[F11].exists
    /\ events = {}
    /\ workingDirectoryCache[F11] # <<>>
    /\ conversationFileCache[F11] = <<>>
    /\ projectFilesCache[ProjectDir(W1)] = <<>>
    /\ conversationCache[W1] = <<>>
    /\ conversationFileCache[F12] # <<>>
    /\ workingDirectoryCache[F12] # <<>>

\* what the claim says a change event of f leaves alone, but for the
\* conversation list
ChangeFrame(f) ==
    /\ conversationFileCache'[f] = <<>>
    /\ OtherSummariesKept(f)
    /\ projectFilesCache' = projectFilesCache
    /\ projectDirExistsCache' = projectDirExistsCache
    /\ workingDirectoryCache' = workingDirectoryCache

\* C22 as stated: a change event of session file F evicts only the summary
\* of F; the listing, the directory-exists cache, the working-directory
\* cache, the conversation list of the workspace and the summaries of the
\* other files are left unchanged
C22_AsStated ==
    [][\A f \in FilePaths :
          ChangeHandled(f) =>
              ChangeFrame(f) /\ conversationCache' = conversationCache]_vars

\* C22: a change event of session file F evicts the summary of F and the
\* conversation list of F's workspace; the listing, the directory-exists
\* cache, the working-directory cache, the summaries of the other files and
\* the conversation lists of the other workspaces are left unchanged
C22_ChangeEvictions ==
    [][\A f \in FilePaths :
          ChangeHandled(f) =>
              /\ ChangeFrame(f)
              /\ conversationCache'[OwnerOf(f[1])] = <<>>
              /\ \A w \in Workspaces \ {OwnerOf(f[1])} :
                    conversationCache'[w] = conversationCache[w]]_vars

\* a change event of F11 has been handled after an append: the size of F11
\* is recorded, its summary and the conversation list are gone, the summary
\* of F12 and the listing are still cached
C22_Witness ==
    /\ fs[F11].exists
    /\ fileSizeCache[F11] = FileSize(fs[F11])
    /\ events = {}
    /\ changing = {}
    /\ conversationFileCache[F11] = <<>>
    /\ conversationCache[W1] = <<>>
    /\ conversationFileCache[F12] # <<>>
    /\ projectFilesCache[ProjectDir(W1)] # <<>>

\* the last modification of f is a touch: its modification time is later
\* than the write of its last record
Touched(f) ==
    /\ fs[f].exists
    /\ fs[f].lines # <<>>
    /\ fs[f].mtime > fs[f].lines[Len(fs[f].lines)].timestamp

\* C23: a change event of a session file whose size is unchanged (a pure
\* timestamp touch) resets the monitoring-start time of the workspace to
\* now and leaves the summary of the file cached (the file is not read
\* again)
C23_TouchIsPing ==
    [][\A f \in FilePaths :
          ChangeHandled(f) /\ Touched(f) =>
              /\ workspaceStartupTimes'[OwnerOf(f[1])] = now
              /\ conversationFileCache'[f] = conversationFileCache[f]]_vars

\* a run of readConversationFile reads the head of f in this step
HeadRead(w, f) ==
    /\ call[w].pc = "read"
    /\ call[w].files[call[w].i].path = f
    /\ call'[w].pc = "readDone"
    /\ call'[w].head

\* C24: the head of a session file is read at most once per file path:
\* only when no earlier read has left a working directory in the cache;
\* and a cached working directory never changes, whatever the events and
\* clearCache
C24_HeadReadOnce ==
    [][\A f \in FilePaths :
          /\ \A w \in Workspaces : HeadRead(w, f) => workingDirectoryCache[f] = <<>>
          /\ workingDirectoryCache[f] # <<>> =>
                workingDirectoryCache'[f] = workingDirectoryCache[f]]_vars

(* readConversationFile.  sum is the summary of file as the claim words    *)
(* it; the lines are numbered from the start of the file.                  *)

\* line i of the file is a genuine message record: it parses, is not of the
\* types summary and file-history-snapshot, has a message and a timestamp
Genuine(file, i) ==
    /\ file.lines[i] # Malformed
    /\ file.lines[i].type \notin {"file-history-snapshot", "summary"}
    /\ file.lines[i].message.present
    /\ file.lines[i].timestamp # 0

GenuineLines(file) == {i \in 1..Len(file.lines) : Genuine(file, i)}

\* genuine line i is strictly older than a genuine line after it
StrictlyOlder(file, i) ==
    \E k \in GenuineLines(file) :
        k > i /\ file.lines[i].timestamp < file.lines[k].timestamp

\* the genuine lines the backward scan meets before the first strictly
\* older one
ScannedLines(file) ==
    {i \in GenuineLines(file) :
        \A j \in GenuineLines(file) : j >= i => ~StrictlyOlder(file, j)}

\* the last message the summary holds for line i
MessageOf(file, i) ==
    [present |-> TRUE,
     role    |-> file.lines[i].message.role,
     content |-> file.lines[i].message.content]

\* the timestamps of the genuine lines never decrease
Nondecreasing(file) ==
    \A i, j \in GenuineLines(file) :
        i < j => file.lines[i].timestamp <= file.lines[j].timestamp

SummaryAsClaimed(file, sum) ==
    LET G == GenuineLines(file)
        S == ScannedLines(file)
    IN  /\ G # {} =>
              \E i \in S :
                 /\ \A j \in S : file.lines[j].timestamp <= file.lines[i].timestamp
                 /\ sum.lastModified = file.lines[i].timestamp
                 /\ sum.lastMessage = MessageOf(file, i)
        /\ G # {} /\ Nondecreasing(file) =>
              \E i \in G :
                 /\ \A j \in G : j <= i
                 /\ sum.lastModified = file.lines[i].timestamp
                 /\ sum.lastMessage = MessageOf(file, i)
        /\ G = {} =>
              /\ sum.lastModified = file.mtime
              /\ ~sum.lastMessage.present

\* C25: the summary readConversationFile gives for a file holds, as last
\* message, the genuine message record of greatest timestamp among those
\* the backward scan meets before the first strictly older one (malformed
\* lines and records of type summary or file-history-snapshot are
\* skipped); when the timestamps never decrease this is the final genuine
\* message record; when there is no timestamped message, lastModified is
\* the file's modification time and there is no last message
C25_LastMessageOfTail ==
    \A f \in FilePaths :
        conversationFileCache[f] # <<>> /\ fs[f].exists =>
            SummaryAsClaimed(fs[f], conversationFileCache[f][1])

\* the summary of a file has been read whose last line is not JSON and
\* whose messages are of the instants 3, 1, 2 in this order: the scan
\* stopped at the message of instant 1 and the summary holds the message of
\* instant 2
C25_Witness ==
    /\ conversationFileCache[F11] # <<>>
    /\ Len(fs[F11].lines) = 4
    /\ fs[F11].lines[1].timestamp = 3 /\ Genuine(fs[F11], 1)
    /\ fs[F11].lines[2].timestamp = 1 /\ Genuine(fs[F11], 2)
    /\ fs[F11].lines[3].timestamp = 2 /\ Genuine(fs[F11], 3)
    /\ fs[F11].lines[4] = Malformed
    /\ conversationFileCache[F11][1].lastModified = 2
    /\ conversationFileCache[F11][1].lastMessage = MessageOf(fs[F11], 3)

\* the last recompute removed the acknowledgement record of its workspace
AckRemoved == upd.ackBefore # 0 /\ upd.ackAfter = 0

\* C26: a status recompute removes the acknowledgement record of its
\* workspace exactly when the freshly computed status has a timestamp
\* strictly greater than the acknowledged one; with an equal, an older or
\* no computed timestamp the record is left as it was
C26_AckClearedIffNewer ==
    upd.w # <<>> /\ upd.ackBefore # 0 =>
        /\ AckRemoved <=> /\ upd.info.lastMessageTime # 0
                          /\ upd.info.lastMessageTime > upd.ackBefore
        /\ ~AckRemoved => upd.ackAfter = upd.ackBefore

\* a recompute with a strictly greater timestamp removed the record
C26_Witness ==
    /\ upd.w # <<>>
    /\ AckRemoved
    /\ upd.info.lastMessageTime > upd.ackBefore

\* the step is an acknowledgement of w: its timer is set, or its
\* acknowledged timestamp is set to a new value
AckStep(w) ==
    \/ w \in ackTimers' /\ w \notin ackTimers
    \/ /\ acknowledgedTimestamps'[w] # acknowledgedTimestamps[w]
       /\ acknowledgedTimestamps'[w] # 0

\* C27: acknowledge(W) records the timestamp of the cached status of W as
\* acknowledged and schedules the recompute of W; an acknowledged timestamp
\* is set only from a cached status that has a timestamp; the step changes
\* neither the status cache nor the acknowledged timestamp of another
\* workspace
C27_AcknowledgeRecordsCached ==
    [][\A w \in Workspaces :
          AckStep(w) =>
             /\ Truthy(statusCache[w].lastMessageTime)
             /\ acknowledgedTimestamps'[w] = statusCache[w].lastMessageTime
             /\ w \in ackTimers'
             /\ statusCache' = statusCache
             /\ \A v \in Workspaces \ {w} :
                   acknowledgedTimestamps'[v] = acknowledgedTimestamps[v]]_vars

\* W2 has been acknowledged and its recompute is scheduled, while W1, whose
\* cached status has a timestamp too, has no acknowledged timestamp
C27_Witness ==
    /\ lastAck.w = W2
    /\ W2 \in ackTimers
    /\ acknowledgedTimestamps[W2] = statusCache[W2].lastMessageTime
    /\ acknowledgedTimestamps[W2] # 0
    /\ Truthy(statusCache[W1].lastMessageTime)
    /\ acknowledgedTimestamps[W1] = 0

\* a watcher callback for session file f runs to its end in the step
FileEventHandled(f) ==
    CreateDelivered(f) \/ DeleteDelivered(f) \/ ChangeHandled(f)

\* what getStatus(b) reads of the caches stays as it is
KeptFor(b) ==
    /\ conversationCache'[b] = conversationCache[b]
    /\ workspaceStartupTimes'[b] = workspaceStartupTimes[b]
    /\ projectDirExistsCache'[ProjectDir(b)] = projectDirExistsCache[ProjectDir(b)]
    /\ projectFilesCache'[ProjectDir(b)] = projectFilesCache[ProjectDir(b)]
    /\ \A g \in FilesOfDir(ProjectDir(b)) :
          /\ conversationFileCache'[g] = conversationFileCache[g]
          /\ workingDirectoryCache'[g] = workingDirectoryCache[g]
    /\ claudeProcessCache' = claudeProcessCache

GetStatusCalled(w) ==
    \/ w \in loading.todo /\ w \notin loading'.todo
    \/ w \in pending /\ w \notin pending'

\* a getStatus call of w returns in the step: a call in flight, or a call
\* that is served from the caches
GetStatusReturns(w) ==
    /\ call'[w].pc = "idle"
    /\ call[w].pc # "idle" \/ GetStatusCalled(w)

\* the session files of w that exist
SessionFiles(w) == {f \in FilesOfDir(ProjectDir(w)) : fs[f].exists}

\* C29: once the create event of a new session file of W is delivered, the
\* next getStatus(W) counts the file: its status is not NoSession and its
\* summaries are those of the session files, also when the log directory
\* of W did not exist or was empty at an earlier getStatus(W)
C29_CreatedFileCounted ==
    [][GetStatusReturns(W1) /\ events = {} /\ SessionFiles(W1) # {} =>
          /\ ret'.w = W1
          /\ ret'.info.status # "NoSession"
          /\ Len(ret'.convs) = Cardinality(SessionFiles(W1))]_vars

\* the session files of w modified within the last 24 hours
RecentSessionFiles(w) ==
    {f \in SessionFiles(w) : fs[f].mtime >= now - FILE_AGE_THRESHOLD_MS}

\* the files whose summaries a return of getStatus used
PathsOf(convs) == {convs[i].path : i \in 1..Len(convs)}

\* C30: at every getStatus call the summaries used, and conversationCount,
\* are exactly those of the session files of the log directory modified
\* within the last 24 hours: an older file is never counted, a file
\* modified within 24 hours always is
C30_ExactlyLastDay ==
    [][GetStatusReturns(W1) /\ events = {} /\ changing = {} =>
          /\ ret'.w = W1
          /\ PathsOf(ret'.convs) = RecentSessionFiles(W1)
          /\ ret'.info.conversationCount = Cardinality(RecentSessionFiles(W1))]_vars

\* C31: getStatus returns RecentlyFinished only when the last message of
\* the most recently modified summary is from the assistant
C31_FinishedOnlyAfterAssistant ==
    Returned /\ ret.info.status = "RecentlyFinished" =>
        /\ ret.convs # <<>>
        /\ ret.convs[1].lastMessage.present
        /\ ret.convs[1].lastMessage.role = "assistant"

\* C32: at most one periodic process-rescan timer exists at any time, its
\* handle is the one the monitor holds, and once the monitor holds none
\* (after stopProcessMonitoring) no periodic rescan is left
C32_AtMostOneTimer ==
    /\ timers <= 1
    /\ ~processMonitorInterval => timers = 0

\* C33: after dispose() has returned no periodic process rescan is
\* scheduled, and none is scheduled later by an operation that was in
\* flight when dispose was called
C33_NoTimerAfterDispose == disposed => timers = 0

\* the window gains focus in the step
FocusGainedStep == ~isWindowFocused /\ isWindowFocused'

\* C34: a focus-gained transition starts a process scan, and the status
\* recompute it triggers does not start with the transition itself but
\* after that scan has completed
C34_RecomputeAfterOwnScan ==
    [][FocusGainedStep =>
          /\ \E s \in ScanSlots :
                /\ scan[s].pc = "idle"
                /\ scan'[s].pc = "ps"
                /\ scan'[s].origin = "start"
          /\ pending' = {}]_vars

C36_TimestampOfSummaries ==
    Returned /\ ret.info # Undefined =>
        /\ Truthy(ret.info.lastMessageTime) <=> ret.info.status \in Timestamped
        /\ ret.info.status \in Timestamped =>
              \E i \in 1..Len(ret.convs) :
                 ret.convs[i].lastModified = ret.info.lastMessageTime
        /\ ret.info.status \in {"Executing", "RecentlyFinished"} =>
              ret.info.lastMessageTime = MaxLastModified(ret.convs)

\* Executing is returned for two summaries of different instants, with the
\* later instant as its time
C36_Witness ==
    /\ Returned
    /\ ret.info.status = "Executing"
    /\ Len(ret.convs) = 2
    /\ ret.convs[1].lastModified # ret.convs[2].lastModified
    /\ ret.info.lastMessageTime = MaxLastModified(ret.convs)

\* the summary is the one a read of its file gives now
Fresh(c) == fs[c.path].exists /\ c = ReadConversationFile(c.path, fs[c.path])

\* C37: a getStatus call in flight does not put a summary read before a
\* change event back into the caches: once every event is handled and
\* nothing is in flight, the cached summaries and the cached conversation
\* lists are those of the files as they are, so that every getStatus that
\* starts then reflects the content as of the event
C37_NoStaleRepopulation ==
    Quiescent =>
        /\ \A f \in FilePaths :
              conversationFileCache[f] # <<>> => Fresh(conversationFileCache[f][1])
        /\ \A w \in Workspaces :
              conversationCache[w] # <<>> =>
                 \A i \in 1..Len(conversationCache[w][1]) :
                    Fresh(conversationCache[w][1][i])


\* C38: while the window stays focused and the agent has fallen silent, a
\* cached status Executing of the workspace is eventually replaced by
\* another one, and a cached status WaitingForInput or RecentlyFinished is
\* eventually replaced by Running or NotRunning.
C38_ActiveStatusExpires ==
    /\ (statusCache[W1].status = "Executing")
         ~> (statusCache[W1].status # "Executing")
    /\ (statusCache[W1].status \in {"WaitingForInput", "RecentlyFinished"})
         ~> (statusCache[W1].status \in {"Running", "NotRunning"})

\* the periodic recompute replaced a cached RecentlyFinished by Running or
\* NotRunning, the agent being silent for more than 30 minutes
C38_Witness ==
    /\ upd.w = W1
    /\ upd.old.status = "RecentlyFinished"
    /\ upd.new.status \in {"Running", "NotRunning"}
    /\ statusCache[W1].status \in {"Running", "NotRunning"}
    /\ now - fs[F11].mtime > THIRTY_MINUTES

\* C39: the mapping from workspace path to log directory is injective: two
\* distinct workspace paths never resolve to the same directory.
C39_DistinctPathsDistinctDirs ==
    \A a \in resolved.dirs : \A b \in resolved.dirs :
        a[1] # b[1] => a[2] # b[2]
====
